---------------------------- MODULE Spec2Model ----------------------------
(***************************************************************************)
(* A model of cjworkbench's module loading and execution subsystem         *)
(* (server/models/loaded_module.py): the external-module registry cache,   *)
(* for_module_version_sync and the LoadedModule facade (render, fetch,     *)
(* migrate_params); of the sort module's parameter migration               *)
(* (server/modules/sort.py); of the serializer's unlocked read of a cached *)
(* render result (server/serializers.py); of the views of a WfModule, row  *)
(* paging and the workflow's cooperative lock (server/views/WfModule.py);  *)
(* of the tiled read over read_arrow_table (cjwstate/parquet.py); and of   *)
(* ChangeParametersCommand (server/models/commands).                       *)
(*                                                                         *)
(* Python strings are modelled as sequences of tokens, so that formatting  *)
(* and "contains" are computed, not assumed.  Python's None is the token   *)
(* "None" or a record whose kind is "none".                                *)
(***************************************************************************)
EXTENDS Integers, Sequences, FiniteSets, TLC

VARIABLES
    \* ---- registry (load_external_module) ----
    disk,       \* (module_id_name, version_sha1) -> directory listing
    cache,      \* load_external_module._cache
    loadCount,  \* number of _load_external_module_uncached calls so far
    rpc,        \* per thread: position inside load_external_module
    rargs,      \* per thread: arguments of the current / last call
    rlocal,     \* per thread: cached_condition, cached_value, value
    rret,       \* per thread: outcome of the last completed call
    seen,       \* per module id: entry left by the last returned lookup
    lm,         \* per thread: what for_module_version_sync returned last
    \* ---- LoadedModule.render ----
    renderIn,   \* the LoadedModule and the arguments of the last render call
    renderOut,  \* what that call did: the impl call it made and its outcome
    \* ---- LoadedModule.fetch, one coroutine per task of the event loop ----
    scope,      \* which inputs the fetch calls of this behaviour draw from
    loopOwner,  \* the task whose code the event loop's thread is running
    fpc,        \* per task: position inside fetch
    fin,        \* per task: the LoadedModule and the suppliers' behaviour
    fkw,        \* per task: kwargs, the names forwarded to fetch_impl
    fut,        \* per task: input_dataframe_future and input_dataframe
    origCalls,  \* per task, per supplier: invocations of the caller's supplier
    facadeCalls,\* per task, per supplier: those made by fetch itself
    fimpl,      \* per task: the running fetch_impl
    fout,       \* per task: what fetch returned or raised
    overlap,    \* per task: executor-run impls running when fetch was called
    \* ---- LoadedModule.migrate_params ----
    migIn,      \* the LoadedModule and the values of the last call
    migOut,     \* what that call returned or raised
    \* ---- WfModuleSerializer.get_cached_render_result_data ----
    wfm,        \* the module's row: last_relevant_delta_id, cached delta_id
    blob,       \* the cached result's backing file
    spc,        \* position of the reader inside the method
    slocal,     \* what the reader saw: cached_result and the freshness check
    sdata,      \* data, the dict the method returns
    sreads,     \* reads of the backing file the current call has made
    \* ---- views: make_render_json / table_result ----
    pageIn,     \* the table and the request's startrow and endrow
    pageOut,    \* the response
    \* ---- the tiled read of a cached result ----
    tileIn,     \* the cached file, the tile size and the tile asked for
    tpc,        \* position of the tiled read
    tileCols,   \* the columns selected from the file's metadata
    tileOut,    \* the tile returned
    dataRead,   \* the columns whose data has been read from the file
    \* ---- views: requests on one workflow ----
    lock,       \* the request inside workflow.cooperative_lock(), or "free"
    vpc,        \* per request: position inside its view
    vreq,       \* per request: the method, the endpoint and the body
    vlocal,     \* per request: wf_module, the object the lookup loaded
    dbRow,      \* the WfModule's row in the database
    versions,   \* the StoredObjects of the module: stored_at -> read
    vresp,      \* per request: the status of the response
    clobbered,  \* per request: its save() undid another request's commit
    \* ---- ChangeParametersCommand ----
    cin,        \* the module, its state and the values submitted
    cpc,        \* position: before create, after forward, after backward
    dbParams,   \* wf_module.params as stored in the database
    wfParams,   \* wf_module.params, the dict of the in-memory object
    cmd,        \* the command created, if any: old_values and new_values
    cout        \* what amend_create_kwargs returned or raised

registryVars == <<disk, cache, loadCount, rpc, rargs, rlocal, rret, seen, lm>>
renderVars == <<renderIn, renderOut>>

fetchVars == <<scope, loopOwner, fpc, fin, fkw, fut, origCalls, facadeCalls,
               fimpl, fout, overlap>>

migrateVars == <<migIn, migOut>>

readerVars == <<wfm, blob, spc, slocal, sdata, sreads>>

pageVars == <<pageIn, pageOut>>

tileVars == <<tileIn, tpc, tileCols, tileOut, dataRead>>

lockVars == <<lock, vpc, vreq, vlocal, dbRow, versions, vresp, clobbered>>

commandVars == <<cin, cpc, dbParams, wfParams, cmd, cout>>

viewVars == <<pageVars, tileVars, lockVars, commandVars>>

vars == <<registryVars, renderVars, fetchVars, migrateVars, readerVars,
          viewVars>>

(***************************************************************************)
(* Bounds                                                                  *)
(***************************************************************************)
MaxLoads == 3       \* loads from disk explored per behaviour
MaxDepth == 2       \* frames of module code on the stack when it raises
MaxImplCalls == 2   \* supplier calls one fetch_impl run makes
MaxSortColumns == 2 \* entries of a stored sort_columns list
MaxDelta == 3       \* the workflow's delta ids run from 1 to this
MaxTableLen == 3    \* rows of a table that is paged
MaxTileTable == 3   \* rows, and columns, of a table that is read in tiles

(***************************************************************************)
(* Registry: load_external_module and its process-wide cache               *)
(***************************************************************************)
ModuleIds == {"extmod", "othermod"}
VersionHashes == {"v1", "develop"}
\* last_update_time values: only compared for equality
UpdateTimes == {"2018-11-29T19:50", "2018-11-30T08:15"}
\* callers of load_external_module (request threads of the one process)
Threads == {"t1", "t2"}

\* Directory listings of a code package.
Listings == { {"setup.py", "README.md"}, {"setup.py", "extmod.py", "extmod.html"} }

NoCond == [hash |-> "None", time |-> "None"]
NoObj == [oid |-> 0, id |-> "None", hash |-> "None"]
\* cache.get(module_id_name, (None, None)) of an id never stored
NoEntry == [cond |-> NoCond, value |-> NoObj]

NoArgs == [id |-> "None", hash |-> "None", time |-> "None"]
NoLocal == [ccond |-> NoCond, cval |-> NoObj, value |-> NoObj]
NoRet == [kind |-> "none", exc |-> "None", obj |-> NoObj, loads |-> 0]

\* StaticModules: the built-in implementations, by module_id_name
StaticModuleIds == {"pastecsv", "loadurl"}
StaticModules == [id \in StaticModuleIds |-> [oid |-> 0, id |-> id, hash |-> "None"]]

\* cls(module_id_name, version_sha1, is_external=..., render_impl=...,
\* fetch_impl=..., migrate_params_impl=...): module is where the three
\* implementations were taken from
LoadedModule(module_id_name, version_sha1, is_external, module) ==
    [module_id_name |-> module_id_name, version_sha1 |-> version_sha1,
     is_external |-> is_external, module |-> module]
NoLoadedModule == LoadedModule("None", "None", FALSE, NoObj)

PythonFilesWithSetup(listing) == listing \cap {"extmod.py", "setup.py"}

\* for f in os.listdir(path): skip setup.py; first f ending in ".py"
PythonFiles(listing) == listing \cap {"extmod.py"}

\* _load_external_module_uncached: the module object loaded from
\* IMPORTED_MODULES_ROOT/module_id_name/version_sha1, or a ValueError.
\* A load creates a new module object: oid is its identity.
LoadUncached(module_id_name, version_sha1, n) ==
    IF PythonFiles(disk[<<module_id_name, version_sha1>>]) = {}
    THEN [kind |-> "raised", exc |-> "ValueError", obj |-> NoObj]
    ELSE [kind |-> "value", exc |-> "None",
          obj |-> [oid |-> n, id |-> module_id_name, hash |-> version_sha1]]

CacheHitHashOnly(cached_condition, cache_condition) ==
    cached_condition.hash = cache_condition.hash

CacheHitTimeOnly(cached_condition, cache_condition) ==
    cached_condition.time = cache_condition.time

\* if cached_condition == cache_condition
CacheHit(cached_condition, cache_condition) ==
    cached_condition = cache_condition

CacheCondition(a) == [hash |-> a.hash, time |-> a.time]

\* lines 410-415: read the cache; on a hit return the cached value
Lookup(th) ==
    /\ rpc[th] = "idle"
    /\ \E id \in ModuleIds, h \in VersionHashes, t \in UpdateTimes :
         LET a == [id |-> id, hash |-> h, time |-> t]
             entry == cache[id]
         IN  /\ rargs' = [rargs EXCEPT ![th] = a]
             /\ IF CacheHit(entry.cond, CacheCondition(a))
                THEN /\ rpc' = rpc
                     /\ rlocal' = rlocal
                     /\ rret' = [rret EXCEPT ![th] =
                            [kind |-> "value", exc |-> "None",
                             obj |-> entry.value, loads |-> 0]]
                     /\ seen' = [seen EXCEPT ![id] =
                            [cond |-> CacheCondition(a), value |-> entry.value]]
                     /\ lm' = [lm EXCEPT ![th] =
                            LoadedModule(id, h, TRUE, entry.value)]
                ELSE /\ rpc' = [rpc EXCEPT ![th] = "miss"]
                     /\ rlocal' = [rlocal EXCEPT ![th] =
                            [ccond |-> entry.cond, cval |-> entry.value,
                             value |-> NoObj]]
                     /\ rret' = [rret EXCEPT ![th] = NoRet]
                     /\ seen' = seen
                     /\ lm' = [lm EXCEPT ![th] = NoLoadedModule]
    /\ UNCHANGED <<disk, cache, loadCount, renderVars, fetchVars, migrateVars,
                   readerVars,
                   viewVars>>

LoadCachingFailure(th) ==
    /\ rpc[th] = "miss"
    /\ loadCount < MaxLoads
    /\ LET a == rargs[th]
           r == LoadUncached(a.id, a.hash, loadCount + 1)
       IN  /\ loadCount' = loadCount + 1
           /\ IF r.kind = "raised"
              THEN /\ rpc' = [rpc EXCEPT ![th] = "idle"]
                   /\ rret' = [rret EXCEPT ![th] =
                          [@ EXCEPT !.kind = "raised", !.exc = r.exc,
                                    !.loads = @ + 1]]
                   /\ rlocal' = [rlocal EXCEPT ![th] = NoLocal]
                   /\ cache' = [cache EXCEPT ![a.id] =
                          [cond |-> CacheCondition(a), value |-> NoObj]]
              ELSE /\ rpc' = [rpc EXCEPT ![th] = "loaded"]
                   /\ rret' = [rret EXCEPT ![th] = [@ EXCEPT !.loads = @ + 1]]
                   /\ rlocal' = [rlocal EXCEPT ![th] = [@ EXCEPT !.value = r.obj]]
                   /\ cache' = cache
    /\ UNCHANGED <<disk, rargs, seen, lm, renderVars, fetchVars,
                   migrateVars, readerVars, viewVars>>

\* line 417: value = _load_external_module_uncached(...); an exception
\* leaves load_external_module at once
Load(th) ==
    /\ rpc[th] = "miss"
    /\ loadCount < MaxLoads
    /\ LET a == rargs[th]
           r == LoadUncached(a.id, a.hash, loadCount + 1)
       IN  /\ loadCount' = loadCount + 1
           /\ IF r.kind = "raised"
              THEN /\ rpc' = [rpc EXCEPT ![th] = "idle"]
                   /\ rret' = [rret EXCEPT ![th] =
                          [@ EXCEPT !.kind = "raised", !.exc = r.exc,
                                    !.loads = @ + 1]]
                   /\ rlocal' = [rlocal EXCEPT ![th] = NoLocal]
              ELSE /\ rpc' = [rpc EXCEPT ![th] = "loaded"]
                   /\ rret' = [rret EXCEPT ![th] = [@ EXCEPT !.loads = @ + 1]]
                   /\ rlocal' = [rlocal EXCEPT ![th] = [@ EXCEPT !.value = r.obj]]
    /\ UNCHANGED <<disk, cache, rargs, seen, lm, renderVars, fetchVars,
                   migrateVars, readerVars,
                   viewVars>>

\* lines 418-419: cache[module_id_name] = (cache_condition, value); return
Store(th) ==
    /\ rpc[th] = "loaded"
    /\ LET a == rargs[th]
           e == [cond |-> CacheCondition(a), value |-> rlocal[th].value]
       IN  /\ cache' = [cache EXCEPT ![a.id] = e]
           /\ rret' = [rret EXCEPT ![th] =
                  [@ EXCEPT !.kind = "value", !.obj = rlocal[th].value]]
           /\ seen' = [seen EXCEPT ![a.id] = e]
           /\ lm' = [lm EXCEPT ![th] =
                  LoadedModule(a.id, a.hash, TRUE, rlocal[th].value)]
    /\ rpc' = [rpc EXCEPT ![th] = "idle"]
    /\ rlocal' = [rlocal EXCEPT ![th] = NoLocal]
    /\ UNCHANGED <<disk, loadCount, rargs, renderVars, fetchVars, migrateVars,
                   readerVars,
                   viewVars>>

IsStaticNever(module_id_name) == FALSE

\* try: module = StaticModules[module_id_name] ... except KeyError
IsStatic(module_id_name) == module_id_name \in DOMAIN StaticModules

\* for_module_version_sync, lines 335-352, of a ModuleVersion whose id_name
\* is a built-in's (Lookup, Load and Store are its steps for any other
\* id_name). Were the id_name no key of StaticModules, load_external_module
\* would look for its directory, and there is none.
ForModuleVersionSync(th) ==
    /\ rpc[th] = "idle"
    /\ \E id \in StaticModuleIds, h \in VersionHashes, t \in UpdateTimes :
         /\ rargs' = [rargs EXCEPT ![th] = [id |-> id, hash |-> h, time |-> t]]
         /\ IF IsStatic(id)
            THEN /\ lm' = [lm EXCEPT ![th] =
                        LoadedModule(id, "internal", FALSE, StaticModules[id])]
                 /\ rret' = [rret EXCEPT ![th] = NoRet]
            ELSE /\ lm' = [lm EXCEPT ![th] = NoLoadedModule]
                 /\ rret' = [rret EXCEPT ![th] =
                        [NoRet EXCEPT !.kind = "raised",
                                      !.exc = "FileNotFoundError"]]
    /\ UNCHANGED <<disk, cache, loadCount, rpc, rlocal, seen, renderVars,
                   fetchVars, migrateVars, readerVars,
                   viewVars>>

InitRegistryVars ==
    /\ disk \in [ModuleIds \X VersionHashes -> Listings]
    /\ Cardinality({d \in ModuleIds \X VersionHashes :
                        PythonFiles(disk[d]) = {}}) <= 1
    /\ cache = [id \in ModuleIds |-> NoEntry]
    /\ loadCount = 0
    /\ rargs = [th \in Threads |-> NoArgs]
    /\ rlocal = [th \in Threads |-> NoLocal]
    /\ rret = [th \in Threads |-> NoRet]
    /\ seen = [id \in ModuleIds |-> NoEntry]
    /\ lm = [th \in Threads |-> NoLoadedModule]

\* One caller at a time: the other threads never enter.
InitRegistrySeq ==
    /\ InitRegistryVars
    /\ rpc = [th \in Threads |-> IF th = "t1" THEN "idle" ELSE "off"]

\* Every thread may call, in any interleaving.
InitRegistry ==
    /\ InitRegistryVars
    /\ rpc = [th \in Threads |-> "idle"]

NextRegistry ==
    \E th \in Threads : Lookup(th) \/ Load(th) \/ Store(th)

NextResolve ==
    \E th \in Threads :
        ForModuleVersionSync(th) \/ Lookup(th) \/ Load(th) \/ Store(th)

(***************************************************************************)
(* Python values                                                           *)
(***************************************************************************)
Digits == <<"0", "1", "2", "3", "4", "5", "6", "7", "8", "9">>

\* str(n) of a non-negative int, as the f-string formats lineno
RECURSIVE IntToStr(_)
IntToStr(n) ==
    IF n < 10 THEN <<Digits[n + 1]>>
    ELSE IntToStr(n \div 10) \o <<Digits[(n % 10) + 1]>>

\* sub in s, for strings as token sequences
Contains(s, sub) ==
    \E i \in 0..(Len(s) - Len(sub)) :
        \A k \in 1..Len(sub) : s[i + k] = sub[k]

EmptyStr == <<>>

\* settings.MAX_ROWS_PER_TABLE, scaled down
MaxRowsPerTable == 2
TableRows == {0, 1, MaxRowsPerTable + 1}

\* A value a module function may return, or None. post lists the
\* post-processing steps applied to a ProcessResult, in order.
Val(kind, rows, error) ==
    [kind |-> kind, rows |-> rows, clean |-> FALSE, error |-> error, post |-> <<>>]
NoneVal == Val("None", 0, EmptyStr)
Table(rows) == Val("table", rows, EmptyStr)
ModuleError == <<"Please", " ", "choose", " ", "a", " ", "column">>
RawValues ==
    {NoneVal, Val("int", 0, EmptyStr), Val("str", 0, ModuleError)}
        \cup {Table(n) : n \in TableRows}
        \cup {Val("pair", n, ModuleError) : n \in {1}}
        \cup {Val("ProcessResult", n, EmptyStr) : n \in {1, MaxRowsPerTable + 1}}

\* ProcessResult(dataframe, error)
ProcessResult(rows, error) == Val("ProcessResult", rows, error)

(***************************************************************************)
(* Exceptions and tracebacks                                               *)
(***************************************************************************)
FacadeFile == "loaded_module.py"
ModuleFile == "mymodule.py"
LibFile == "frame.py"
ThreadFile == "thread.py"
TypesFile == "types.py"

RenderCallLine == 175
RenderCoerceLine == 181
FetchAwaitLine == 249
\* concurrent/futures/thread.py: result = self.fn(*self.args, **self.kwargs)
ThreadRunLine == 57
\* the raise inside ProcessResult.coerce
CoerceRaiseLine == 90
\* lines of the module's code
ModuleLines == {7, 10}

Frame(file, line) == [file |-> file, line |-> line]

\* The frames of module code on the stack when the implementation raises
\* inside its body: the implementation's own function first, then whatever
\* it called (its own helper, or library code).
Callees == {Frame(ModuleFile, 10), Frame(LibFile, 10)}
StacksOfDepth(d) ==
    IF d = 1 THEN {<<Frame(ModuleFile, l)>> : l \in ModuleLines}
    ELSE {<<Frame(ModuleFile, 7)>> \o rest : rest \in [1..(d - 1) -> Callees]}
ImplStacks == UNION {StacksOfDepth(d) : d \in 1..MaxDepth}

\* What an implementation does when called: return a value or raise.
\* SystemExit is a BaseException that is no Exception.
ExceptionTypes == {"ZeroDivisionError", "SystemExit"}
ExcMessage == <<"division", " ", "by", " ", "zero">>
ImplReturns(v) == [kind |-> "return", value |-> v, exc |-> "None", stack |-> <<>>]
ImplRaises(e, st) == [kind |-> "raise", value |-> NoneVal, exc |-> e, stack |-> st]
Behaviours ==
    {ImplReturns(v) : v \in RawValues}
        \cup {ImplRaises(e, st) : e \in ExceptionTypes, st \in ImplStacks}

\* except Exception catches it
IsException(e) == e # "SystemExit"

Returned(v) == [kind |-> "returned", value |-> v, exc |-> "None"]
Raised(e) == [kind |-> "raised", value |-> NoneVal, exc |-> e]

\* f'{exc_name}: {str(err)} at line {lineno} of {fname}'
FormatError(exc_name, msg, lineno, fname) ==
    <<exc_name, ": ">> \o msg \o <<" at line ">> \o IntToStr(lineno)
        \o <<" of ", fname>>

\* LoadedModule._wrap_exception: tb is traceback.extract_tb(exc_tb), the
\* facade's own frame first. extract_tb(exc_tb)[1] of a one-frame traceback
\* is an IndexError, raised from the except clause.
WrapException(exc_name, msg, tb) ==
    IF Len(tb) < 2 THEN Raised("IndexError")
    ELSE Returned(ProcessResult(0,
             FormatError(exc_name, msg, tb[2].line, tb[2].file)))

\* str(err) of the exceptions of the model
MessageOf(exc_name) ==
    CASE exc_name = "ZeroDivisionError" -> ExcMessage
      [] exc_name = "TypeError" -> <<"missing", " ", "argument">>
      [] exc_name = "ValueError" -> <<"invalid", " ", "return", " ", "value">>
      [] exc_name = "RuntimeError" ->
            <<"cannot", " ", "reuse", " ", "already", " ", "awaited", " ", "coroutine">>
      [] OTHER -> EmptyStr

(***************************************************************************)
(* ProcessResult: coerce, truncate, sanitize                               *)
(***************************************************************************)
\* ProcessResult.coerce: a table, a (table, error) pair, an error string or
\* a ProcessResult; any other shape raises ValueError.
Coercible(v) == v.kind \in {"table", "pair", "str", "ProcessResult"}
Coerce(v) ==
    CASE v.kind = "table" -> ProcessResult(v.rows, EmptyStr)
      [] v.kind = "pair" -> ProcessResult(v.rows, v.error)
      [] v.kind = "str" -> ProcessResult(0, v.error)
      [] OTHER -> v

Min(a, b) == IF a < b THEN a ELSE b

\* ProcessResult.truncate_in_place_if_too_big
TruncateInPlaceIfTooBig(r) ==
    [r EXCEPT !.rows = Min(@, MaxRowsPerTable), !.post = Append(@, "truncate")]

\* ProcessResult.sanitize_in_place
SanitizeInPlace(r) ==
    [r EXCEPT !.clean = TRUE, !.post = Append(@, "sanitize")]

(***************************************************************************)
(* Declared parameters of an implementation                                *)
(***************************************************************************)
\* inspect.getfullargspec(impl): spec.varkw, spec.kwonlyargs, and the number
\* of positional parameters impl takes
Signature(npos, varkw, kwonlyargs) ==
    [npos |-> npos, varkw |-> varkw, kwonlyargs |-> kwonlyargs]

\* varkw or name in kwonlyargs
Declares(sig, name) == sig.varkw \/ name \in sig.kwonlyargs

\* spec.args[i - 1], the name of the i-th positional parameter: the
\* implementations here call a third positional parameter fetch_result, and
\* give the others names no caller passes by keyword
ArgName(i) == IF i = 3 THEN "fetch_result" ELSE "arg"

\* impl(*args, **kwargs) binds: otherwise Python raises TypeError at the
\* call, before any line of impl runs. A positional parameter the caller
\* gave no positional argument for is bound by keyword, or missing.
Binds(sig, nargs, kwargs) ==
    /\ sig.npos >= nargs
    /\ \A i \in (nargs + 1)..sig.npos : ArgName(i) \in kwargs
    /\ \A k \in kwargs :
          \/ Declares(sig, k)
          \/ \E i \in (nargs + 1)..sig.npos : ArgName(i) = k
    /\ \A k \in sig.kwonlyargs : k \in kwargs

(***************************************************************************)
(* LoadedModule.render                                                     *)
(***************************************************************************)
Params == [kind |-> "Params", table |-> NoneVal]
\* params.to_painful_dict(table)
ToPainfulDict(table) == [kind |-> "painful dict", table |-> table]

\* def render(a), def render(a, b), def render(a, b, fetch_result), each
\* with or without **kwargs and a keyword-only fetch_result
RenderSignatures ==
    {sig \in {Signature(n, kw, ko) : n \in {1, 2, 3}, kw \in BOOLEAN,
                                     ko \in SUBSET {"fetch_result"}} :
        ~(sig.npos = 3 /\ "fetch_result" \in sig.kwonlyargs)}

RenderInputs ==
    [is_external : BOOLEAN,
     sig : RenderSignatures,
     does : Behaviours,
     table : {NoneVal, Table(1)},
     fetch_result : {NoneVal, ProcessResult(1, EmptyStr)}]

\* what the implementations do when render runs beside fetch: return a
\* table, one over the maximum size, a value that is no result, or raise
CallBehaviours ==
    {ImplReturns(Table(1)), ImplReturns(Table(MaxRowsPerTable + 1)),
     ImplReturns(Val("int", 0, EmptyStr)),
     ImplRaises("ZeroDivisionError", <<Frame(ModuleFile, 10)>>)}

\* what render is called with when it runs beside fetch
CallRenderInputs ==
    {in \in RenderInputs :
        /\ in.sig \in {Signature(1, FALSE, {}), Signature(2, FALSE, {}),
                       Signature(2, FALSE, {"fetch_result"})}
        /\ in.does \in CallBehaviours
        /\ in.fetch_result # NoneVal}

RenderInputsFor(sc) == IF sc = "calls" THEN CallRenderInputs ELSE RenderInputs

NoRenderIn ==
    [is_external |-> FALSE, sig |-> Signature(2, FALSE, {}),
     does |-> ImplReturns(NoneVal), table |-> NoneVal, fetch_result |-> NoneVal]
NoCall == [arg1 |-> NoneVal, arg2 |-> NoneVal, kwargs |-> {}, bound |-> FALSE]
NoRenderOut == [call |-> NoCall, outcome |-> Returned(NoneVal), done |-> FALSE]

RenderArgsInternal(in) == [arg1 |-> Params, arg2 |-> in.table]

\* lines 159-163
RenderArgs(in) ==
    IF in.is_external
    THEN [arg1 |-> in.table, arg2 |-> ToPainfulDict(in.table)]
    ELSE [arg1 |-> Params, arg2 |-> in.table]

RenderKwargsAlways(in) == {"fetch_result"}

\* lines 165-170
RenderKwargs(in) ==
    IF in.sig.varkw \/ "fetch_result" \in in.sig.kwonlyargs
    THEN {"fetch_result"} ELSE {}

\* out = self.render_impl(arg1, arg2, **kwargs) as seen from line 175:
\* the value, or the exception with its traceback
CallImpl(sig, does, nargs, kwargs, callLine) ==
    IF ~Binds(sig, nargs, kwargs)
    THEN [kind |-> "raise", value |-> NoneVal, exc |-> "TypeError",
          tb |-> <<Frame(FacadeFile, callLine)>>]
    ELSE [kind |-> does.kind, value |-> does.value, exc |-> does.exc,
          tb |-> IF does.kind = "raise"
                 THEN <<Frame(FacadeFile, callLine)>> \o does.stack
                 ELSE <<>>]

\* lines 174-178: the try around the call
RenderTry(in) ==
    LET r == CallImpl(in.sig, in.does, 2, RenderKwargs(in), RenderCallLine)
    IN  IF r.kind = "return" THEN Returned(r.value)
        ELSE IF IsException(r.exc)
             THEN WrapException(r.exc, MessageOf(r.exc), r.tb)
             ELSE Raised(r.exc)

\* lines 180-185: out = ProcessResult.coerce(out), in its own try
CoerceTry(out, line) ==
    IF Coercible(out) THEN Returned(Coerce(out))
    ELSE WrapException("ValueError", MessageOf("ValueError"),
             <<Frame(FacadeFile, line), Frame(TypesFile, CoerceRaiseLine)>>)

\* lines 190-194: logger.info(..., table.shape[0], table.shape[1], ...)
RenderLog(in, out) ==
    IF in.table.kind = "None" THEN Raised("AttributeError") ELSE Returned(out)

\* LoadedModule.render, lines 159-196
RenderOutcome(in) ==
    LET t == RenderTry(in)
    IN  IF t.kind = "raised" THEN t
        ELSE LET c == CoerceTry(t.value, RenderCoerceLine)
             IN  IF c.kind = "raised" THEN c
                 ELSE RenderLog(in,
                          SanitizeInPlace(TruncateInPlaceIfTooBig(c.value)))

\* line 175: what render passes to render_impl, and whether the call bound
RenderCall(in) ==
    [arg1 |-> RenderArgs(in).arg1, arg2 |-> RenderArgs(in).arg2,
     kwargs |-> RenderKwargs(in), bound |-> Binds(in.sig, 2, RenderKwargs(in))]

Render ==
    /\ \E in \in RenderInputsFor(scope) :
         /\ renderIn' = in
         /\ renderOut' = [call |-> RenderCall(in), outcome |-> RenderOutcome(in),
                          done |-> TRUE]
    /\ UNCHANGED <<registryVars, fetchVars, migrateVars, readerVars,
                   viewVars>>

InitRenderVars ==
    /\ renderIn = NoRenderIn
    /\ renderOut = NoRenderOut

(***************************************************************************)
(* LoadedModule.fetch on an asyncio event loop                             *)
(***************************************************************************)
Tasks == {"f1", "f2"}
FetchKwargNames ==
    {"workflow_id", "get_input_dataframe", "get_stored_dataframe",
     "get_workflow_owner"}
Suppliers == FetchKwargNames \ {"workflow_id"}

FetchSignatures ==
    {Signature(n, kw, ko) : n \in {1, 2}, kw \in BOOLEAN,
                            ko \in SUBSET FetchKwargNames}

\* What awaiting get_input_dataframe() gives: a table, None, or an
\* exception. The awaitable it returns is a coroutine object (an async def)
\* or a future.
SupplierResults ==
    {[kind |-> "value", value |-> v] : v \in {NoneVal, Table(1)}}
        \cup {[kind |-> "raise", value |-> NoneVal]}
Awaitables == {"coroutine", "future"}

FetchInputs ==
    [is_external : BOOLEAN,
     iscoro : BOOLEAN,
     sig : FetchSignatures,
     does : Behaviours,
     input : SupplierResults,
     awaitable : Awaitables]

\* _default_fetch(params, **kwargs): async, returns None
DefaultFetch(is_external, input, awaitable) ==
    [is_external |-> is_external, iscoro |-> TRUE,
     sig |-> Signature(1, TRUE, {}), does |-> ImplReturns(NoneVal),
     input |-> input, awaitable |-> awaitable]

\* The inputs of the two-task behaviours: every kind of step, few of each.
LoopInputs ==
    {in \in FetchInputs :
        /\ in.sig \in {Signature(1, FALSE, {}),
                       Signature(1, FALSE, {"get_input_dataframe"})}
        /\ in.does \in {ImplReturns(NoneVal), ImplReturns(Table(1)),
                        ImplRaises("ZeroDivisionError", <<Frame(ModuleFile, 10)>>)}
        /\ in.input = [kind |-> "value", value |-> Table(1)]
        /\ in.awaitable = "future"}

\* The inputs of the behaviours that run render and fetch side by side
CallInputs ==
    {in \in FetchInputs :
        /\ in.sig \in {Signature(1, FALSE, {}),
                       Signature(1, FALSE, {"get_input_dataframe"})}
        /\ in.does \in CallBehaviours
        /\ in.awaitable = "future"}

InputsFor(sc) ==
    CASE sc = "one" -> FetchInputs
      [] sc = "two" -> LoopInputs
      [] OTHER -> CallInputs

NoFetchIn == DefaultFetch(FALSE, [kind |-> "value", value |-> NoneVal], "future")
NoFuture == [made |-> FALSE, awaited |-> 0, dataframe |-> NoneVal]
NoImpl == [where |-> "None", params |-> NoneVal, calls |-> 0, got |-> <<>>,
           err |-> "None", res |-> ImplReturns(NoneVal)]
NoCalls == [n \in Suppliers |-> 0]

FetchKwargsAll(sig) == FetchKwargNames

\* lines 213-224: forward a name iff fetch_impl declares it
FetchKwargs(sig) == {n \in FetchKwargNames : Declares(sig, n)}

ShortCircuitsNever(in, kwargs) == FALSE

\* lines 234-237: kwargs['get_input_dataframe'] = lambda: input_dataframe_future
ShortCircuits(in, kwargs) ==
    in.is_external /\ "get_input_dataframe" \in kwargs

RunsOnLoopAlways(in) == "loop"

\* lines 241-246: a coroutine function is awaited on the caller's event
\* loop; anything else goes to loop.run_in_executor(None, func)
RunsOn(in) == IF in.iscoro THEN "loop" ELSE "executor"

\* lines 231-232: None becomes pd.DataFrame()
InputDataframe(v) == IF v.kind = "None" THEN Table(0) ELSE v

\* lines 226-233: the params fetch_impl is called with at line 242 or 245
FetchParams(in, input_dataframe) ==
    IF in.is_external THEN ToPainfulDict(input_dataframe) ELSE Params

\* lines 198-230, to the first suspension: build kwargs; an external
\* module's input is asked of the supplier and awaited
FetchCall(t) ==
    /\ fpc[t] = "idle"
    /\ loopOwner = "None"
    /\ \E in \in InputsFor(scope) :
         /\ fin' = [fin EXCEPT ![t] = in]
         /\ fkw' = [fkw EXCEPT ![t] = FetchKwargs(in.sig)]
         /\ IF in.is_external
            THEN /\ origCalls' = [origCalls EXCEPT
                                    ![t]["get_input_dataframe"] = @ + 1]
                 /\ facadeCalls' = [facadeCalls EXCEPT
                                    ![t]["get_input_dataframe"] = @ + 1]
                 /\ fut' = [fut EXCEPT ![t] = [@ EXCEPT !.made = TRUE]]
                 /\ fpc' = [fpc EXCEPT ![t] = "await_input"]
                 /\ loopOwner' = "None"
            ELSE /\ fpc' = [fpc EXCEPT ![t] = "ready"]
                 /\ loopOwner' = t
                 /\ UNCHANGED <<origCalls, facadeCalls, fut>>
    /\ overlap' = [overlap EXCEPT ![t] =
            {u \in Tasks : fpc[u] = "impl" /\ fimpl[u].where = "executor"}]
    /\ UNCHANGED <<scope, fimpl, fout, registryVars, renderVars, migrateVars,
                   readerVars,
                   viewVars>>

\* line 230 resumes, lines 231-237: the awaited supplier raised, which
\* leaves fetch, or gave the input the painful dict is built from
AwaitInput(t) ==
    /\ fpc[t] = "await_input"
    /\ loopOwner = "None"
    /\ IF fin[t].input.kind = "raise"
       THEN /\ fout' = [fout EXCEPT ![t] = Raised("DoesNotExist")]
            /\ fpc' = [fpc EXCEPT ![t] = "done"]
            /\ fut' = [fut EXCEPT ![t] = [@ EXCEPT !.awaited = @ + 1]]
            /\ UNCHANGED <<loopOwner>>
       ELSE /\ fut' = [fut EXCEPT ![t] =
                   [@ EXCEPT !.awaited = @ + 1,
                             !.dataframe = InputDataframe(fin[t].input.value)]]
            /\ fpc' = [fpc EXCEPT ![t] = "ready"]
            /\ loopOwner' = t
            /\ UNCHANGED <<fout>>
    /\ UNCHANGED <<scope, fin, fkw, origCalls, facadeCalls, fimpl, overlap,
                   registryVars, renderVars, migrateVars, readerVars,
                   viewVars>>

\* lines 241-246: start fetch_impl. Calling a coroutine function that does
\* not bind raises TypeError at line 242, outside any try.
StartImpl(t) ==
    /\ fpc[t] = "ready"
    /\ loopOwner = t
    /\ IF fin[t].iscoro /\ ~Binds(fin[t].sig, 1, fkw[t])
       THEN /\ fout' = [fout EXCEPT ![t] = Raised("TypeError")]
            /\ fpc' = [fpc EXCEPT ![t] = "done"]
            /\ loopOwner' = "None"
            /\ UNCHANGED fimpl
       ELSE /\ fimpl' = [fimpl EXCEPT ![t] =
                   [@ EXCEPT !.where = RunsOn(fin[t]),
                             !.params = FetchParams(fin[t], fut[t].dataframe)]]
            /\ fpc' = [fpc EXCEPT ![t] = "impl"]
            /\ loopOwner' = IF RunsOn(fin[t]) = "loop" THEN t ELSE "None"
            /\ UNCHANGED fout
    /\ UNCHANGED <<scope, fin, fkw, fut, origCalls, facadeCalls, overlap,
                   registryVars, renderVars, migrateVars, readerVars,
                   viewVars>>

\* What fetch_impl gets when it calls the get_input_dataframe it was given
\* and awaits the result: the short-circuit hands back the awaitable fetch
\* has awaited already, and a coroutine object cannot be awaited twice.
ForwardedInput(t) ==
    IF ShortCircuits(fin[t], fkw[t])
    THEN IF fin[t].awaitable = "coroutine" /\ fut[t].awaited >= 1
         THEN [kind |-> "raise", value |-> NoneVal, exc |-> "RuntimeError"]
         ELSE [kind |-> "value", value |-> fin[t].input.value, exc |-> "None"]
    ELSE IF fin[t].input.kind = "raise"
         THEN [kind |-> "raise", value |-> NoneVal, exc |-> "DoesNotExist"]
         ELSE [kind |-> "value", value |-> fin[t].input.value, exc |-> "None"]

\* fetch_impl, running, calls a supplier it was handed in kwargs
ImplCallSupplier(t) ==
    /\ fpc[t] = "impl"
    /\ Binds(fin[t].sig, 1, fkw[t])
    /\ fimpl[t].err = "None"
    /\ fimpl[t].calls < MaxImplCalls
    /\ \E name \in fkw[t] \cap Suppliers :
         IF name = "get_input_dataframe"
         THEN LET r == ForwardedInput(t)
              IN  /\ fimpl' = [fimpl EXCEPT ![t] =
                         [@ EXCEPT !.calls = @ + 1,
                                   !.got = Append(@, [kind |-> r.kind,
                                                      value |-> r.value]),
                                   !.err = r.exc]]
                  /\ origCalls' =
                         IF ShortCircuits(fin[t], fkw[t]) THEN origCalls
                         ELSE [origCalls EXCEPT ![t][name] = @ + 1]
         ELSE /\ fimpl' = [fimpl EXCEPT ![t] = [@ EXCEPT !.calls = @ + 1]]
              /\ origCalls' = [origCalls EXCEPT ![t][name] = @ + 1]
    /\ UNCHANGED <<scope, loopOwner, fpc, fin, fkw, fut, facadeCalls, fout,
                   overlap, registryVars, renderVars, migrateVars, readerVars,
                   viewVars>>

\* What the run of fetch_impl ends with: on the executor a call that does
\* not bind raises in the worker thread; an exception met at a supplier
\* call is raised from the implementation's own function
ImplResult(t) ==
    IF ~Binds(fin[t].sig, 1, fkw[t]) THEN ImplRaises("TypeError", <<>>)
    ELSE IF fimpl[t].err # "None"
         THEN ImplRaises(fimpl[t].err, <<Frame(ModuleFile, 7)>>)
         ELSE fin[t].does

\* fetch_impl returns or raises
ImplFinish(t) ==
    /\ fpc[t] = "impl"
    /\ fimpl' = [fimpl EXCEPT ![t] = [@ EXCEPT !.res = ImplResult(t)]]
    /\ fpc' = [fpc EXCEPT ![t] = "impl_done"]
    /\ UNCHANGED <<scope, loopOwner, fin, fkw, fut, origCalls, facadeCalls,
                   fout, overlap, registryVars, renderVars, migrateVars,
                   readerVars,
                   viewVars>>

\* the traceback of the exception at line 249: fetch's own frame, the
\* worker thread's frame when the executor ran fetch_impl, then fetch_impl's
FetchTraceback(where, stack) ==
    <<Frame(FacadeFile, FetchAwaitLine)>>
        \o (IF where = "executor"
            THEN <<Frame(ThreadFile, ThreadRunLine)>> ELSE <<>>)
        \o stack

\* lines 248-252: out = await future_result, in a try
FetchTry(where, res) ==
    IF res.kind = "return" THEN Returned(res.value)
    ELSE IF IsException(res.exc)
         THEN WrapException(res.exc, MessageOf(res.exc),
                            FetchTraceback(where, res.stack))
         ELSE Raised(res.exc)

IsNoneNever(v) == FALSE

\* if out is None
IsNone(v) == v.kind = "None"

FetchPostCoerceOnly(out) ==
    IF IsNone(out) THEN Returned(out)
    ELSE IF ~Coercible(out) THEN Raised("ValueError")
         ELSE Returned(Coerce(out))

\* lines 256-262: None is returned as it is; anything else is coerced (no
\* try around it), truncated and sanitized
FetchPost(out) ==
    IF IsNone(out) THEN Returned(out)
    ELSE IF ~Coercible(out) THEN Raised("ValueError")
         ELSE Returned(SanitizeInPlace(TruncateInPlaceIfTooBig(Coerce(out))))

\* lines 248-268
FetchOutcome(where, res) ==
    LET t == FetchTry(where, res)
    IN  IF t.kind = "raised" THEN t ELSE FetchPost(t.value)

\* line 249 resumes with fetch_impl's result, to the return
ResumeWithResult(t) ==
    /\ fpc[t] = "impl_done"
    /\ loopOwner = (IF fimpl[t].where = "loop" THEN t ELSE "None")
    /\ fout' = [fout EXCEPT ![t] = FetchOutcome(fimpl[t].where, fimpl[t].res)]
    /\ fpc' = [fpc EXCEPT ![t] = "done"]
    /\ loopOwner' = "None"
    /\ UNCHANGED <<scope, fin, fkw, fut, origCalls, facadeCalls, fimpl, overlap,
                   registryVars, renderVars, migrateVars, readerVars,
                   viewVars>>

InitFetchVars ==
    /\ loopOwner = "None"
    /\ fin = [t \in Tasks |-> NoFetchIn]
    /\ fkw = [t \in Tasks |-> {}]
    /\ fut = [t \in Tasks |-> NoFuture]
    /\ origCalls = [t \in Tasks |-> NoCalls]
    /\ facadeCalls = [t \in Tasks |-> NoCalls]
    /\ fimpl = [t \in Tasks |-> NoImpl]
    /\ fout = [t \in Tasks |-> Returned(NoneVal)]
    /\ overlap = [t \in Tasks |-> {}]

\* no fetch is ever called
IdleFetch ==
    /\ InitFetchVars
    /\ scope = "one"
    /\ fpc = [t \in Tasks |-> "off"]

\* one fetch call, its inputs drawn from all of FetchInputs
InitFetchOne ==
    /\ InitFetchVars
    /\ scope = "one"
    /\ fpc = [t \in Tasks |-> IF t = "f1" THEN "idle" ELSE "off"]

\* two fetch calls on the same event loop
InitFetchLoop ==
    /\ InitFetchVars
    /\ scope = "two"
    /\ fpc = [t \in Tasks |-> "idle"]

\* one fetch call and any number of render calls
InitFetchCalls ==
    /\ InitFetchVars
    /\ scope = "calls"
    /\ fpc = [t \in Tasks |-> IF t = "f1" THEN "idle" ELSE "off"]

NextFetch ==
    \E t \in Tasks :
        \/ FetchCall(t)
        \/ AwaitInput(t)
        \/ StartImpl(t)
        \/ ImplCallSupplier(t)
        \/ ImplFinish(t)
        \/ ResumeWithResult(t)

(***************************************************************************)
(* Parameter values and the sort module's migrate_params                   *)
(* (server/modules/sort.py)                                                *)
(***************************************************************************)
ColumnNames == {"A", "B"}
\* 0: 'None' [sic], 1: 'Ascending', 2: 'Descending'
Directions == {0, 1, 2}
KeepTops == {"", "2"}
ParamKeys == {"column", "direction", "sort_columns", "keep_top"}

\* {colname: ..., is_ascending: ...}
SortColumn(colname, is_ascending) ==
    [colname |-> colname, is_ascending |-> is_ascending]
SortColumnLists ==
    UNION {[1..n -> {SortColumn(c, a) : c \in ColumnNames, a \in BOOLEAN}] :
              n \in 0..MaxSortColumns}

\* A Python dict of parameter values: keys is the set of its keys; the
\* field of a key the dict does not have holds a fixed filler.
Dict(keys, column, direction, sort_columns, keep_top) ==
    [keys |-> keys,
     column |-> IF "column" \in keys THEN column ELSE "",
     direction |-> IF "direction" \in keys THEN direction ELSE 0,
     sort_columns |-> IF "sort_columns" \in keys THEN sort_columns ELSE <<>>,
     keep_top |-> IF "keep_top" \in keys THEN keep_top ELSE ""]

\* what the database may hold for a sort module: v0, v1, v2 and torn shapes
StoredValues ==
    {Dict(k, c, d, sc, kt) : k \in SUBSET ParamKeys, c \in ColumnNames,
                             d \in Directions, sc \in SortColumnLists,
                             kt \in KeepTops}

MigReturns(v) == [kind |-> "return", value |-> v, exc |-> "None", msg |-> ""]
MigRaises(e, msg) ==
    [kind |-> "raise", value |-> Dict({}, "", 0, <<>>, ""), exc |-> e,
     msg |-> msg]

MigrateParamsV0ToV1AscendingIsOne(params) ==
    IF "column" \notin params.keys THEN MigRaises("KeyError", "'column'")
    ELSE IF "direction" \notin params.keys
         THEN MigRaises("KeyError", "'direction'")
         ELSE MigReturns(Dict({"sort_columns"}, "", 0,
                  <<SortColumn(params.column, params.direction = 1)>>, ""))

\* _migrate_params_v0_to_v1: params['column'] and params['direction'] are
\* read in this order; a missing key is a KeyError
MigrateParamsV0ToV1(params) ==
    IF "column" \notin params.keys THEN MigRaises("KeyError", "'column'")
    ELSE IF "direction" \notin params.keys
         THEN MigRaises("KeyError", "'direction'")
         ELSE MigReturns(Dict({"sort_columns"}, "", 0,
                  <<SortColumn(params.column, params.direction # 2)>>, ""))

\* _migrate_params_v1_to_v2: params['keep_top'] = ''
MigrateParamsV1ToV2(params) ==
    Dict(params.keys \cup {"keep_top"}, params.column, params.direction,
         params.sort_columns, "")

SortMigrateParamsResetKeepTop(params) ==
    LET v1 == IF "sort_columns" \notin params.keys
              THEN MigrateParamsV0ToV1(params) ELSE MigReturns(params)
    IN  IF v1.kind = "raise" THEN v1
        ELSE MigReturns(MigrateParamsV1ToV2(v1.value))

\* sort.migrate_params
SortMigrateParams(params) ==
    LET v1 == IF "sort_columns" \notin params.keys
              THEN MigrateParamsV0ToV1(params) ELSE MigReturns(params)
    IN  IF v1.kind = "raise" THEN v1
        ELSE IF "keep_top" \notin v1.value.keys
             THEN MigReturns(MigrateParamsV1ToV2(v1.value))
             ELSE v1

(***************************************************************************)
(* LoadedModule.migrate_params                                             *)
(***************************************************************************)
\* The schema of the sort module: a list sort_columns and a string
\* keep_top. schema.validate raises ValueError, with this detail, on a dict
\* that has other keys than the schema's; "" when the dict validates.
SchemaKeys == {"sort_columns", "keep_top"}
ValidationDetail(values) ==
    IF values.keys = SchemaKeys THEN "" ELSE "Value has wrong keys"

\* schema.coerce: the schema's keys, each with the value given or the
\* default
SchemaCoerce(values) ==
    Dict(SchemaKeys, "", 0, values.sort_columns, values.keep_top)

\* migrate_params_impl: None, sort.migrate_params, or some other module's,
\* which raises or returns what it likes
OtherMigrations ==
    {MigRaises(e, "division by zero") : e \in ExceptionTypes}
        \cup {MigReturns(v) : v \in
                 {Dict(SchemaKeys, "", 0, <<>>, ""),
                  Dict({"sort_columns"}, "", 0, <<SortColumn("A", TRUE)>>, ""),
                  Dict({}, "", 0, <<>>, "")}}
MigrateImpls ==
    {[kind |-> "None", does |-> MigReturns(Dict({}, "", 0, <<>>, ""))],
     [kind |-> "sort", does |-> MigReturns(Dict({}, "", 0, <<>>, ""))]}
        \cup {[kind |-> "other", does |-> d] : d \in OtherMigrations}

\* self.migrate_params_impl(values)
CallMigrateImpl(impl, values) ==
    IF impl.kind = "sort" THEN SortMigrateParams(values) ELSE impl.does

MigReturned(v) == [kind |-> "returned", value |-> v, exc |-> "None", args |-> <<>>]
MigRaised(e, args) ==
    [kind |-> "raised", value |-> Dict({}, "", 0, <<>>, ""), exc |-> e,
     args |-> args]

MigrateParamsUnvalidated(impl, values) ==
    IF impl.kind # "None"
    THEN LET r == CallMigrateImpl(impl, values)
         IN  IF r.kind = "raise"
             THEN IF IsException(r.exc)
                  THEN MigRaised("ValueError", <<r.msg>>)
                  ELSE MigRaised(r.exc, <<r.msg>>)
             ELSE MigReturned(r.value)
    ELSE MigReturned(SchemaCoerce(values))

\* LoadedModule.migrate_params, lines 291-307. args is the exception's
\* args: ValueError(err) has the caught exception's message as its text,
\* ValueError('migrate_params() gave bad output: %s', str(err)) has two
\* arguments, the format and the detail.
MigrateParams(impl, values) ==
    IF impl.kind # "None"
    THEN LET r == CallMigrateImpl(impl, values)
         IN  IF r.kind = "raise"
             THEN IF IsException(r.exc)
                  THEN MigRaised("ValueError", <<r.msg>>)
                  ELSE MigRaised(r.exc, <<r.msg>>)
             ELSE IF ValidationDetail(r.value) # ""
                  THEN MigRaised("ValueError",
                           <<"migrate_params() gave bad output: %s",
                             ValidationDetail(r.value)>>)
                  ELSE MigReturned(r.value)
    ELSE MigReturned(SchemaCoerce(values))

NoMigrateIn ==
    [impl |-> [kind |-> "None", does |-> MigReturns(Dict({}, "", 0, <<>>, ""))],
     values |-> Dict({}, "", 0, <<>>, ""), again |-> FALSE]
NoMigrateOut == [outcome |-> MigReturned(Dict({}, "", 0, <<>>, "")), done |-> FALSE]

\* migrate_params(schema, values) on the stored values
Migrate ==
    /\ ~migOut.done
    /\ migOut' = [outcome |-> MigrateParams(migIn.impl, migIn.values),
                  done |-> TRUE]
    /\ UNCHANGED <<migIn, registryVars, renderVars, fetchVars,
                   readerVars,
                   viewVars>>

\* migrate_params(schema, values) on the values the last call returned
MigrateAgain ==
    /\ migOut.done
    /\ migOut.outcome.kind = "returned"
    /\ migIn' = [impl |-> migIn.impl, values |-> migOut.outcome.value,
                 again |-> TRUE]
    /\ migOut' = [outcome |-> MigrateParams(migIn.impl, migOut.outcome.value),
                  done |-> TRUE]
    /\ UNCHANGED <<registryVars, renderVars, fetchVars,
                   readerVars,
                   viewVars>>

InitMigrateVars ==
    /\ migIn = NoMigrateIn
    /\ migOut = NoMigrateOut

\* a module with or without a migrate_params, and the values stored for it
InitMigrateCall ==
    /\ migIn \in [impl : MigrateImpls, values : StoredValues, again : {FALSE}]
    /\ migOut = NoMigrateOut

NextMigrate == Migrate \/ MigrateAgain

(***************************************************************************)
(* WfModuleSerializer.get_cached_render_result_data (server/serializers.py)*)
(* beside a renderer that replaces the cached result; no lock is held      *)
(***************************************************************************)
\* Python's None or a value
None == [some |-> FALSE, v |-> <<>>]
Some(v) == [some |-> TRUE, v |-> <<v>>]

\* the columns a cached result may have, by name and type
TableColumns == <<[name |-> "A", type |-> "text"], [name |-> "B", type |-> "number"]>>
ColumnCounts == {1, 2}
RowCounts == {0, 2}

\* the backing file: there or not, and of which render
NoFile == [present |-> FALSE, delta_id |-> 0, ncols |-> 0, nrows |-> 0]
FileOf(delta_id, ncols, nrows) ==
    [present |-> TRUE, delta_id |-> delta_id, ncols |-> ncols, nrows |-> nrows]

\* data = {'cached_render_result_delta_id': None, 'output_columns': None,
\*         'output_n_rows': None}
NoData ==
    [cached_render_result_delta_id |-> None, output_columns |-> None,
     output_n_rows |-> None]

\* wfm.get_cached_render_result(): None when the row holds no cached
\* result (cached_delta_id 0), else an object with the row's delta_id
GetCachedRenderResult(row) ==
    IF row.cached_delta_id = 0 THEN None ELSE Some(row.cached_delta_id)

StaleOnlyIfNone(cached_result, row) == ~cached_result.some

\* not cached_result or cached_result.delta_id != wfm.last_relevant_delta_id
Stale(cached_result, row) ==
    \/ ~cached_result.some
    \/ cached_result.v[1] # row.last_relevant_delta_id

\* [{'name': c.name, 'type': c.type} for c in cached_result.columns]
ColumnsOf(f) == SubSeq(TableColumns, 1, f.ncols)

\* line 123, data['cached_render_result_delta_id']: cached_result.delta_id,
\* is an annotation: nothing is assigned
AnnotateDeltaId(data, delta_id) == data

NoSeen == [cached |-> None, last |-> 0, missing |-> FALSE]

\* lines 107-119: fetch the cached result, build data, check it is there
\* and fresh
Serialize ==
    /\ spc \in {"idle", "done"}
    /\ LET cached_result == GetCachedRenderResult(wfm)
       IN  /\ slocal' = [cached |-> cached_result,
                         last |-> wfm.last_relevant_delta_id,
                         missing |-> FALSE]
           /\ sdata' = NoData
           /\ sreads' = 0
           /\ spc' = IF Stale(cached_result, wfm) THEN "done" ELSE "columns"
    /\ UNCHANGED <<wfm, blob, registryVars, renderVars, fetchVars, migrateVars,
                   viewVars>>

\* lines 120-124: columns are read from the backing file; without a file
\* that is a FileNotFoundError, caught at line 126
ReadColumns ==
    /\ spc = "columns"
    /\ sreads' = sreads + 1
    /\ IF ~blob.present
       THEN /\ spc' = "done"
            /\ slocal' = [slocal EXCEPT !.missing = TRUE]
            /\ UNCHANGED sdata
       ELSE /\ spc' = "len"
            /\ sdata' = [AnnotateDeltaId(sdata, slocal.cached.v[1])
                            EXCEPT !.output_columns = Some(ColumnsOf(blob))]
            /\ UNCHANGED slocal
    /\ UNCHANGED <<wfm, blob, registryVars, renderVars, fetchVars, migrateVars,
                   viewVars>>

\* line 125: len(cached_result) is read from the backing file, or is a
\* FileNotFoundError, caught at line 126
ReadLen ==
    /\ spc = "len"
    /\ sreads' = sreads + 1
    /\ spc' = "done"
    /\ IF ~blob.present
       THEN /\ slocal' = [slocal EXCEPT !.missing = TRUE]
            /\ UNCHANGED sdata
       ELSE /\ sdata' = [sdata EXCEPT !.output_n_rows = Some(blob.nrows)]
            /\ UNCHANGED slocal
    /\ UNCHANGED <<wfm, blob, registryVars, renderVars, fetchVars, migrateVars,
                   viewVars>>

\* an edit of the workflow: the module's last_relevant_delta_id moves on
\* and what is cached is stale
Edit ==
    /\ wfm.last_relevant_delta_id < MaxDelta
    /\ wfm' = [wfm EXCEPT !.last_relevant_delta_id = @ + 1]
    /\ UNCHANGED <<blob, spc, slocal, sdata, sreads, registryVars, renderVars,
                   fetchVars, migrateVars,
                   viewVars>>

\* a render completes: its result replaces the cached one
StoreResult ==
    /\ \E ncols \in ColumnCounts, nrows \in RowCounts :
         blob' = FileOf(wfm.last_relevant_delta_id, ncols, nrows)
    /\ wfm' = [wfm EXCEPT !.cached_delta_id = wfm.last_relevant_delta_id]
    /\ UNCHANGED <<spc, slocal, sdata, sreads, registryVars, renderVars,
                   fetchVars, migrateVars,
                   viewVars>>

\* a re-render removes the backing file before it writes the new one
DeleteFile ==
    /\ blob.present
    /\ blob' = NoFile
    /\ UNCHANGED <<wfm, spc, slocal, sdata, sreads, registryVars, renderVars,
                   fetchVars, migrateVars,
                   viewVars>>

InitReaderVars ==
    /\ wfm = [last_relevant_delta_id |-> 1, cached_delta_id |-> 0]
    /\ blob = NoFile
    /\ slocal = NoSeen
    /\ sdata = NoData
    /\ sreads = 0

\* nothing is serialized, nothing rendered
IdleReader ==
    /\ InitReaderVars
    /\ spc = "off"

InitReaderCall ==
    /\ InitReaderVars
    /\ spc = "idle"

NextReader ==
    Serialize \/ ReadColumns \/ ReadLen \/ Edit \/ StoreResult \/ DeleteFile

(***************************************************************************)
(* make_render_json and table_result (server/views/WfModule.py)            *)
(***************************************************************************)
\* a query parameter: absent, an integer literal, or some other text
Absent == [kind |-> "absent", n |-> 0]
IntText(n) == [kind |-> "int", n |-> n]
OtherText == [kind |-> "text", n |-> 0]

\* the row numbers a client may send: negative, inside and beyond the table
ClientRowNumbers == (0 - (MaxTableLen + 1))..(MaxTableLen + 2)
QueryParams == {Absent, OtherText} \cup {IntText(n) : n \in ClientRowNumbers}

\* a table of nrows rows; a row is known by its index in the full table
TableOfLen(nrows) == [i \in 1..nrows |-> i - 1]

Max(a, b) == IF a >= b THEN a ELSE b

\* a Python slice bound on a sequence of length n: negative counts from the
\* end, and the result is clipped to 0..n
SliceBound(i, n) == IF i < 0 THEN Max(0, i + n) ELSE Min(i, n)

\* table[startrow:endrow]
Slice(table, startrow, endrow) ==
    LET lo == SliceBound(startrow, Len(table))
        hi == SliceBound(endrow, Len(table))
    IN  IF lo < hi THEN SubSeq(table, lo + 1, hi) ELSE <<>>

\* int_or_none: None stays None, int(x) raises ValueError on other text
IntOrNone(x) ==
    CASE x.kind = "absent" -> [raised |-> FALSE, value |-> None]
      [] x.kind = "int" -> [raised |-> FALSE, value |-> Some(x.n)]
      [] OTHER -> [raised |-> TRUE, value |-> None]

\* make_render_json, lines 162-191: the defaults, max(0, startrow),
\* min(nrows, endrow), the slice, and the three numbers as formatted
MakeRenderJson(table, startrow, endrow) ==
    LET nrows == Len(table)
        start0 == IF startrow.some THEN startrow.v[1] ELSE 0
        end0 == IF endrow.some THEN endrow.v[1] ELSE nrows
        start1 == Max(0, start0)
        end1 == Min(nrows, end0)
    IN  [total_rows |-> nrows, start_row |-> start1, end_row |-> end1,
         rows |-> Slice(table, start1, end1)]

NoPage == [total_rows |-> 0, start_row |-> 0, end_row |-> 0, rows |-> <<>>]

\* table_result, lines 197-207: 400 on a bad row number, else the page
TableResult(request, table) ==
    LET startrow == IntOrNone(request.startrow)
        endrow == IntOrNone(request.endrow)
    IN  IF startrow.raised \/ endrow.raised
        THEN [status |-> 400, body |-> NoPage]
        ELSE [status |-> 200,
              body |-> MakeRenderJson(table, startrow.value, endrow.value)]

NoPageIn == [table |-> <<>>, startrow |-> Absent, endrow |-> Absent]
NoPageOut == [done |-> FALSE, status |-> 0, body |-> NoPage]

\* GET /render?startrow=..&endrow=..
TableResultCall ==
    /\ ~pageOut.done
    /\ LET r == TableResult(pageIn, pageIn.table)
       IN  pageOut' = [done |-> TRUE, status |-> r.status, body |-> r.body]
    /\ UNCHANGED <<pageIn, registryVars, renderVars, fetchVars, migrateVars,
                   readerVars, tileVars, lockVars, commandVars>>

IdlePage ==
    /\ pageIn = NoPageIn
    /\ pageOut = [NoPageOut EXCEPT !.done = TRUE]

\* a module's output table and the row numbers of a request
InitPageCall ==
    /\ pageIn \in [table : {TableOfLen(n) : n \in 0..MaxTableLen},
                   startrow : QueryParams, endrow : QueryParams]
    /\ pageOut = NoPageOut

NextPage == TableResultCall

(***************************************************************************)
(* The tiled read of a cached result, over read_arrow_table                *)
(* (cjwstate/parquet.py)                                                   *)
(***************************************************************************)
\* the name of the file's i-th column, counting from 0
ColumnName(i) == <<"c">> \o IntToStr(i)

\* a cached result's file: its metadata (the column names, in order, and
\* the number of rows) and its data, a cell per row and column
ParquetFile(ncols, nrows) ==
    [columns |-> [i \in 1..ncols |-> ColumnName(i - 1)], nrows |-> nrows]

TileSizes == {[height |-> h, width |-> w] : h \in 1..2, w \in 1..2}
TileInputs ==
    {[file |-> ParquetFile(ncols, nrows), size |-> sz,
      tile_row |-> r, tile_column |-> c] :
        ncols \in 0..MaxTileTable, nrows \in 0..MaxTileTable, sz \in TileSizes,
        r \in 0..MaxTileTable, c \in 0..MaxTileTable}

\* a cached result of 1,000 rows and 120 columns, tile (2, 3) of size 200x50
Scenario4 ==
    [file |-> ParquetFile(120, 1000), size |-> [height |-> 200, width |-> 50],
     tile_row |-> 2, tile_column |-> 3]

ReadArrowTableAllColumns(file, only_columns) ==
    [columns |-> file.columns, rows |-> TableOfLen(file.nrows)]

\* read_arrow_table(bucket, key, only_columns=...), lines 149-181:
\* pyarrow.parquet.read_table(path, columns=only_columns) reads the named
\* columns, every column when only_columns is None
ReadArrowTable(file, only_columns) ==
    [columns |-> IF only_columns.some
                 THEN SelectSeq(only_columns.v[1],
                          LAMBDA name : \E i \in DOMAIN file.columns :
                                            file.columns[i] = name)
                 ELSE file.columns,
     rows |-> TableOfLen(file.nrows)]

\* the names of the columns a tile covers, from the metadata alone
TileColumnNames(in) ==
    Slice(in.file.columns, in.tile_column * in.size.width,
          (in.tile_column + 1) * in.size.width)

NoTileIn == [file |-> ParquetFile(0, 0), size |-> [height |-> 1, width |-> 1],
             tile_row |-> 0, tile_column |-> 0]
NoTile == [columns |-> <<>>, rows |-> <<>>, error |-> FALSE]

\* column selection first: the tile's column range is mapped to names
SelectTileColumns ==
    /\ tpc = "start"
    /\ tileCols' = TileColumnNames(tileIn)
    /\ tpc' = "selected"
    /\ UNCHANGED <<tileIn, tileOut, dataRead, registryVars, renderVars,
                   fetchVars, migrateVars, readerVars, pageVars, lockVars,
                   commandVars>>

\* row selection second: the selected columns are read, then sliced by the
\* tile's row range
ReadTile ==
    /\ tpc = "selected"
    /\ LET table == ReadArrowTable(tileIn.file, Some(tileCols))
       IN  /\ dataRead' = {table.columns[i] : i \in DOMAIN table.columns}
           /\ tileOut' = [columns |-> table.columns,
                          rows |-> Slice(table.rows,
                                       tileIn.tile_row * tileIn.size.height,
                                       (tileIn.tile_row + 1) * tileIn.size.height),
                          error |-> FALSE]
    /\ tpc' = "done"
    /\ UNCHANGED <<tileIn, tileCols, registryVars, renderVars, fetchVars,
                   migrateVars, readerVars, pageVars, lockVars, commandVars>>

IdleTile ==
    /\ tileIn = NoTileIn
    /\ tpc = "off"
    /\ tileCols = <<>>
    /\ tileOut = NoTile
    /\ dataRead = {}

InitTileCall ==
    /\ tileIn \in TileInputs \cup {Scenario4}
    /\ tpc = "start"
    /\ tileCols = <<>>
    /\ tileOut = NoTile
    /\ dataRead = {}

NextTile == SelectTileColumns \/ ReadTile

(***************************************************************************)
(* The views of one WfModule (server/views/WfModule.py): two requests on   *)
(* the same workflow, each in its own thread, and the workflow's           *)
(* cooperative lock                                                        *)
(***************************************************************************)
Requests == {"q1", "q2"}

\* the fields PATCH /api/wfmodules/<pk> knows, line 135
PatchFields == {"notes", "auto_update_data", "collapsed", "notifications"}

Request(method, endpoint, fields, selected) ==
    [method |-> method, endpoint |-> endpoint, fields |-> fields,
     selected |-> selected]

\* "selected" of PATCH dataversion: no ISO8601 date, the date of no
\* StoredObject, the date of a StoredObject
SelectedDates == {"yesterday", "2018-11-29T19:50Z", "2018-11-30T08:15Z"}
StoredAt == {"2018-11-30T08:15Z"}
ParsesAsDate(date_s) == date_s # "yesterday"

WriteRequests ==
    {Request("PATCH", "detail", f, "") : f \in SUBSET PatchFields}
        \cup {Request("DELETE", "detail", {}, "")}
        \cup {Request("PATCH", "dataversion", {}, d) : d \in SelectedDates}
        \cup {Request("PATCH", "dataversion_read", {}, d) : d \in StoredAt}
ReadRequests ==
    {Request("GET", "render", {}, ""), Request("GET", "input", {}, "")}
NoRequest == Request("None", "None", {}, "")

\* the row of the WfModule: the columns the views write
Row(notes, auto_update_data, is_collapsed, notifications, is_deleted, version) ==
    [notes |-> notes, auto_update_data |-> auto_update_data,
     is_collapsed |-> is_collapsed, notifications |-> notifications,
     is_deleted |-> is_deleted, stored_data_version |-> version]
FirstRow == Row("", FALSE, FALSE, FALSE, FALSE, "None")

\* _lookup_wf_module_no_access_control, lines 28-39: WfModule.objects.get
\* loads the row into a new object; a module that is gone is a 404
LookupWfModule(r) ==
    /\ vpc[r] = "start"
    /\ IF dbRow.is_deleted
       THEN /\ vpc' = [vpc EXCEPT ![r] = "done"]
            /\ vresp' = [vresp EXCEPT ![r] = 404]
            /\ UNCHANGED vlocal
       ELSE /\ vlocal' = [vlocal EXCEPT ![r] = dbRow]
            /\ vresp' = vresp
            /\ vpc' = [vpc EXCEPT ![r] =
                   IF vreq[r].endpoint = "detail" /\ vreq[r].method = "PATCH"
                      /\ vreq[r].fields \cap PatchFields = {}
                   THEN "unknown" ELSE "acquire"]
    /\ UNCHANGED <<lock, vreq, dbRow, versions, clobbered, registryVars,
                   renderVars, fetchVars, migrateVars, readerVars, pageVars,
                   tileVars, commandVars>>

\* lines 135-136 and 152-153: no known field is a ValueError, answered 400
UnknownFields(r) ==
    /\ vpc[r] = "unknown"
    /\ vpc' = [vpc EXCEPT ![r] = "done"]
    /\ vresp' = [vresp EXCEPT ![r] = 400]
    /\ UNCHANGED <<lock, vreq, vlocal, dbRow, versions, clobbered, registryVars,
                   renderVars, fetchVars, migrateVars, readerVars, pageVars,
                   tileVars, commandVars>>

\* the lines whose "with wf_module.workflow.cooperative_lock():" a request
\* enters: 138, 360 and 400 for the writes, 217 and 284 for render and
\* input. DELETE enters none in the view.
TakesLockWritesOnly(req) == req.method = "PATCH"

TakesLock(req) ==
    \/ req.method = "PATCH"
    \/ req.method = "GET" /\ req.endpoint \in {"render", "input"}

\* with wf_module.workflow.cooperative_lock(): waits for the lock, then
\* the body runs
Acquire(r) ==
    /\ vpc[r] = "acquire"
    /\ IF TakesLock(vreq[r])
       THEN /\ lock = "free"
            /\ lock' = r
       ELSE lock' = lock
    /\ vpc' = [vpc EXCEPT ![r] = "body"]
    /\ UNCHANGED <<vreq, vlocal, dbRow, versions, vresp, clobbered, registryVars,
                   renderVars, fetchVars, migrateVars, readerVars, pageVars,
                   tileVars, commandVars>>

Release(r) == IF lock = r THEN "free" ELSE lock

\* lines 139-146: the commands and set_is_collapsed write their field to
\* the object and to its row
PatchedByCommands(r, w) ==
    [w EXCEPT !.notes = IF "notes" \in vreq[r].fields THEN r ELSE @,
              !.auto_update_data =
                  IF "auto_update_data" \in vreq[r].fields THEN TRUE ELSE @,
              !.is_collapsed =
                  IF "collapsed" \in vreq[r].fields THEN TRUE ELSE @]

\* wf_module.save(), line 150: every column of the row is written from
\* the object
Save(wf_module) == wf_module

\* lines 138-150 and 155: the body of PATCH, and the end of the lock
PatchDetail(r) ==
    /\ vpc[r] = "body"
    /\ vreq[r].endpoint = "detail" /\ vreq[r].method = "PATCH"
    /\ LET wf_module == PatchedByCommands(r, vlocal[r])
           committed == PatchedByCommands(r, dbRow)
           notified == [wf_module EXCEPT !.notifications = TRUE]
       IN  IF "notifications" \in vreq[r].fields
           THEN /\ vlocal' = [vlocal EXCEPT ![r] = notified]
                /\ dbRow' = Save(notified)
                /\ clobbered' = [clobbered EXCEPT ![r] =
                       Save(notified) # [committed EXCEPT !.notifications = TRUE]]
           ELSE /\ vlocal' = [vlocal EXCEPT ![r] = wf_module]
                /\ dbRow' = committed
                /\ UNCHANGED clobbered
    /\ lock' = Release(r)
    /\ vpc' = [vpc EXCEPT ![r] = "done"]
    /\ vresp' = [vresp EXCEPT ![r] = 204]
    /\ UNCHANGED <<vreq, versions, registryVars, renderVars, fetchVars,
                   migrateVars, readerVars, pageVars, tileVars, commandVars>>

\* lines 124-129: DeleteModuleCommand.create, which makes its check and
\* the delete one critical section of the workflow's lock; no delta when
\* the module is gone already
DeleteModule(r) ==
    /\ vpc[r] = "body"
    /\ vreq[r].method = "DELETE"
    /\ lock = "free"
    /\ IF dbRow.is_deleted
       THEN /\ vresp' = [vresp EXCEPT ![r] = 404]
            /\ UNCHANGED dbRow
       ELSE /\ vresp' = [vresp EXCEPT ![r] = 204]
            /\ dbRow' = [dbRow EXCEPT !.is_deleted = TRUE]
    /\ vpc' = [vpc EXCEPT ![r] = "done"]
    /\ UNCHANGED <<lock, vreq, vlocal, versions, clobbered, registryVars,
                   renderVars, fetchVars, migrateVars, readerVars, pageVars,
                   tileVars, commandVars>>

\* lines 360-391: PATCH dataversion
PatchDataVersion(r) ==
    /\ vpc[r] = "body"
    /\ vreq[r].endpoint = "dataversion"
    /\ LET date_s == vreq[r].selected
       IN  IF ~ParsesAsDate(date_s)
           THEN /\ vresp' = [vresp EXCEPT ![r] = 400]
                /\ UNCHANGED <<dbRow, versions>>
           ELSE IF date_s \notin DOMAIN versions
                THEN /\ vresp' = [vresp EXCEPT ![r] = 404]
                     /\ UNCHANGED <<dbRow, versions>>
                ELSE /\ vresp' = [vresp EXCEPT ![r] = 204]
                     /\ dbRow' = [dbRow EXCEPT !.stored_data_version = date_s]
                     /\ versions' = [versions EXCEPT ![date_s] = TRUE]
    /\ lock' = Release(r)
    /\ vpc' = [vpc EXCEPT ![r] = "done"]
    /\ UNCHANGED <<vreq, vlocal, clobbered, registryVars, renderVars,
                   fetchVars, migrateVars, readerVars, pageVars, tileVars,
                   commandVars>>

\* lines 400-406: PATCH dataversion/read
PatchDataVersionRead(r) ==
    /\ vpc[r] = "body"
    /\ vreq[r].endpoint = "dataversion_read"
    /\ versions' = [d \in DOMAIN versions |->
                       IF d = vreq[r].selected THEN TRUE ELSE versions[d]]
    /\ vresp' = [vresp EXCEPT ![r] = 204]
    /\ lock' = Release(r)
    /\ vpc' = [vpc EXCEPT ![r] = "done"]
    /\ UNCHANGED <<vreq, vlocal, dbRow, clobbered, registryVars, renderVars,
                   fetchVars, migrateVars, readerVars, pageVars, tileVars,
                   commandVars>>

\* lines 217-219 and 284-291: the page is made inside the lock
ReadTable(r) ==
    /\ vpc[r] = "body"
    /\ vreq[r].method = "GET"
    /\ vresp' = [vresp EXCEPT ![r] = 200]
    /\ lock' = Release(r)
    /\ vpc' = [vpc EXCEPT ![r] = "done"]
    /\ UNCHANGED <<vreq, vlocal, dbRow, versions, clobbered, registryVars,
                   renderVars, fetchVars, migrateVars, readerVars, pageVars,
                   tileVars, commandVars>>

InitLockVars ==
    /\ lock = "free"
    /\ vlocal = [r \in Requests |-> FirstRow]
    /\ dbRow = FirstRow
    /\ versions = [d \in StoredAt |-> FALSE]
    /\ vresp = [r \in Requests |-> 0]
    /\ clobbered = [r \in Requests |-> FALSE]

IdleLock ==
    /\ InitLockVars
    /\ vpc = [r \in Requests |-> "off"]
    /\ vreq = [r \in Requests |-> NoRequest]

\* two requests arrive, one of them a write
InitRequests ==
    /\ InitLockVars
    /\ vpc = [r \in Requests |-> "start"]
    /\ vreq \in [Requests -> WriteRequests \cup ReadRequests]
    /\ \E r \in Requests : vreq[r] \in WriteRequests

NextRequests ==
    \E r \in Requests :
        \/ LookupWfModule(r)
        \/ UnknownFields(r)
        \/ Acquire(r)
        \/ PatchDetail(r)
        \/ DeleteModule(r)
        \/ PatchDataVersion(r)
        \/ PatchDataVersionRead(r)
        \/ ReadTable(r)

(***************************************************************************)
(* ChangeParametersCommand (server/models/commands/                        *)
(* ChangeParametersCommand.py)                                             *)
(***************************************************************************)
\* {**a, **b}
Overlay(a, b) ==
    Dict(a.keys \cup b.keys,
         IF "column" \in b.keys THEN b.column ELSE a.column,
         IF "direction" \in b.keys THEN b.direction ELSE a.direction,
         IF "sort_columns" \in b.keys THEN b.sort_columns ELSE a.sort_columns,
         IF "keep_top" \in b.keys THEN b.keep_top ELSE a.keep_top)

EmptyDict == Dict({}, "", 0, <<>>, "")

\* the dict migrate_params_impl was given, after the call: sort's
\* _migrate_params_v1_to_v2 sets params['keep_top'] on its argument, which
\* is the caller's dict when the caller's dict has 'sort_columns'
ArgumentAfterMigrate(impl, values) ==
    IF impl.kind = "sort" /\ "sort_columns" \in values.keys
       /\ "keep_top" \notin values.keys
    THEN MigrateParamsV1ToV2(values)
    ELSE values

\* the new_values a client submits
SubmittedValues ==
    {EmptyDict, Dict({"keep_top"}, "", 0, <<>>, "2"),
     Dict({"column"}, "A", 0, <<>>, "")}

\* wf_module_is_deleted and module_version: the module's row is gone, the
\* module or its tab is deleted, or its module_version is None
ModuleStates == {"ok", "gone", "deleted", "tab_deleted", "no_module_version"}

CommandInputs ==
    [impl : MigrateImpls, stored : StoredValues, submitted : SubmittedValues,
     state : ModuleStates]

NoCommand == [made |-> FALSE, old_values |-> EmptyDict, new_values |-> EmptyDict]
Command(old_values, new_values) ==
    [made |-> TRUE, old_values |-> old_values, new_values |-> new_values]

\* amend_create_kwargs, lines 49-88. old_values is wf_module.params, the
\* dict itself, and it is that dict migrate_params is given.
AmendCreateKwargs ==
    /\ cpc = "start"
    /\ IF cin.state # "ok"
       THEN /\ cout' = "None"
            /\ cpc' = "rejected"
            /\ UNCHANGED <<wfParams, cmd>>
       ELSE LET old_values == wfParams
                migrated == MigrateParams(cin.impl, old_values)
                after == IF cin.impl.kind = "None" THEN old_values
                         ELSE ArgumentAfterMigrate(cin.impl, old_values)
                new_values == Overlay(migrated.value, cin.submitted)
            IN  /\ wfParams' = after
                /\ IF migrated.kind = "raised"
                   THEN /\ cout' = migrated.exc
                        /\ cpc' = "raised"
                        /\ UNCHANGED cmd
                   ELSE IF ValidationDetail(new_values) # ""
                        THEN /\ cout' = "None"
                             /\ cpc' = "rejected"
                             /\ UNCHANGED cmd
                        ELSE /\ cout' = "kwargs"
                             /\ cpc' = "created"
                             /\ cmd' = Command(after, new_values)
    /\ UNCHANGED <<cin, dbParams, registryVars, renderVars, fetchVars,
                   migrateVars, readerVars, pageVars, tileVars, lockVars>>

\* {**self.old_values, **self.new_values}
ForwardParams(command) == Overlay(command.old_values, command.new_values)

BackwardParamsUpdated(command, params) == Overlay(params, command.old_values)

\* self.wf_module.params = self.old_values
BackwardParams(command, params) == command.old_values

\* forward_impl, lines 18-24
ForwardImpl ==
    /\ cpc \in {"created", "undone"}
    /\ wfParams' = ForwardParams(cmd)
    /\ dbParams' = ForwardParams(cmd)
    /\ cpc' = "applied"
    /\ UNCHANGED <<cin, cmd, cout, registryVars, renderVars, fetchVars,
                   migrateVars, readerVars, pageVars, tileVars, lockVars>>

\* backward_impl, lines 26-29
BackwardImpl ==
    /\ cpc = "applied"
    /\ wfParams' = BackwardParams(cmd, wfParams)
    /\ dbParams' = BackwardParams(cmd, wfParams)
    /\ cpc' = "undone"
    /\ UNCHANGED <<cin, cmd, cout, registryVars, renderVars, fetchVars,
                   migrateVars, readerVars, pageVars, tileVars, lockVars>>

IdleCommand ==
    /\ cin = [impl |-> NoMigrateIn.impl, stored |-> EmptyDict,
              submitted |-> EmptyDict, state |-> "ok"]
    /\ cpc = "off"
    /\ dbParams = EmptyDict
    /\ wfParams = EmptyDict
    /\ cmd = NoCommand
    /\ cout = "None"

\* a module, what is stored for it, and what a client submits
InitCommandCall ==
    /\ cin \in CommandInputs
    /\ cpc = "start"
    /\ dbParams = cin.stored
    /\ wfParams = cin.stored
    /\ cmd = NoCommand
    /\ cout = "None"

NextCommand == AmendCreateKwargs \/ ForwardImpl \/ BackwardImpl

\* no view is called, no command created
IdleViews == IdlePage /\ IdleTile /\ IdleLock /\ IdleCommand

(***************************************************************************)
(* Specifications                                                          *)
(***************************************************************************)
\* the registry at rest: nothing on disk is looked up
IdleRegistry ==
    /\ InitRegistryVars
    /\ \A d \in ModuleIds \X VersionHashes : PythonFiles(disk[d]) # {}
    /\ rpc = [th \in Threads |-> "off"]

InitSeq == InitRegistrySeq /\ InitRenderVars /\ IdleFetch /\ InitMigrateVars
    /\ IdleReader /\ IdleViews
SpecRegistrySeq == InitSeq /\ [][NextRegistry]_vars

\* for_module_version_sync of built-in and external modules, one caller
InitResolve == InitRegistrySeq /\ InitRenderVars /\ IdleFetch /\ InitMigrateVars
    /\ IdleReader /\ IdleViews
SpecResolve == InitResolve /\ [][NextResolve]_vars

InitConcurrent == InitRegistry /\ InitRenderVars /\ IdleFetch /\ InitMigrateVars
    /\ IdleReader /\ IdleViews
SpecRegistry == InitConcurrent /\ [][NextRegistry]_vars

InitRender == IdleRegistry /\ InitRenderVars /\ IdleFetch /\ InitMigrateVars
    /\ IdleReader /\ IdleViews
NextRender == Render
SpecRender == InitRender /\ [][NextRender]_vars

InitFetch == IdleRegistry /\ InitRenderVars /\ InitFetchOne /\ InitMigrateVars
    /\ IdleReader /\ IdleViews
SpecFetch == InitFetch /\ [][NextFetch]_vars

InitLoop == IdleRegistry /\ InitRenderVars /\ InitFetchLoop /\ InitMigrateVars
    /\ IdleReader /\ IdleViews
SpecFetchLoop == InitLoop /\ [][NextFetch]_vars

InitMigrate == IdleRegistry /\ InitRenderVars /\ IdleFetch /\ InitMigrateCall
    /\ IdleReader /\ IdleViews
SpecMigrate == InitMigrate /\ [][NextMigrate]_vars

InitReader == IdleRegistry /\ InitRenderVars /\ IdleFetch /\ InitMigrateVars
    /\ InitReaderCall /\ IdleViews
SpecReader == InitReader /\ [][NextReader]_vars

\* a module's render and its fetch, called in any order
InitCalls == IdleRegistry /\ InitRenderVars /\ InitFetchCalls /\ InitMigrateVars
    /\ IdleReader /\ IdleViews
NextCalls == Render \/ NextFetch
SpecCalls == InitCalls /\ [][NextCalls]_vars

IdleCore == IdleRegistry /\ InitRenderVars /\ IdleFetch /\ InitMigrateVars
    /\ IdleReader

\* GET /render and /input with every startrow and endrow
InitPage == IdleCore /\ InitPageCall /\ IdleTile /\ IdleLock /\ IdleCommand
SpecPage == InitPage /\ [][NextPage]_vars

\* one tiled read
InitTile == IdleCore /\ IdlePage /\ InitTileCall /\ IdleLock /\ IdleCommand
SpecTile == InitTile /\ [][NextTile]_vars

\* two concurrent requests on one workflow
InitViews == IdleCore /\ IdlePage /\ IdleTile /\ InitRequests /\ IdleCommand
SpecViews == InitViews /\ [][NextRequests]_vars

\* a parameter change, then undo and redo
InitCommand == IdleCore /\ IdlePage /\ IdleTile /\ IdleLock /\ InitCommandCall
SpecCommand == InitCommand /\ [][NextCommand]_vars

(***************************************************************************)
(* Claims                                                                  *)
(***************************************************************************)
(* C1: LoadedModule.render never raises: whatever the implementation does  *)
(* (raise inside its body, fail to bind at the call, return a value that   *)
(* cannot be coerced), render returns a ProcessResult, with a non-empty    *)
(* error when the implementation raised or its value was not coercible.    *)
C1_RenderNeverRaises ==
    renderOut.done =>
        /\ renderOut.outcome.kind = "returned"
        /\ renderOut.outcome.value.kind = "ProcessResult"
        /\ (\/ ~Binds(renderIn.sig, 2, RenderKwargs(renderIn))
            \/ renderIn.does.kind = "raise"
            \/ ~Coercible(renderIn.does.value))
              => renderOut.outcome.value.error # EmptyStr

(* C2: LoadedModule.fetch never raises: when the fetch implementation     *)
(* raises, when the awaited get_input_dataframe raises, or when the        *)
(* implementation's value cannot be coerced, fetch returns a ProcessResult *)
(* with an error.                                                          *)
C2_FetchNeverRaises ==
    \A t \in Tasks :
        fpc[t] = "done" =>
            /\ fout[t].kind = "returned"
            /\ (\/ fin[t].is_external /\ fin[t].input.kind = "raise"
                \/ fimpl[t].res.kind = "raise"
                \/ ~IsNone(fimpl[t].res.value) /\ ~Coercible(fimpl[t].res.value))
                  => /\ fout[t].value.kind = "ProcessResult"
                     /\ fout[t].value.error # EmptyStr

(* C5: when the implementation raises inside its body, the error reads     *)
(* '<ExceptionType>: <message> at line <N> of <file>' with <file> the      *)
(* module's own file and <N> the line of the implementation's function on  *)
(* the stack; a ZeroDivisionError raised on line 10 of the implementation  *)
(* gives an error containing 'ZeroDivisionError' and 'line 10'.            *)
C5_ErrorPointsAtModule ==
    \A t \in Tasks :
        LET r == fimpl[t].res
        IN  (/\ fpc[t] = "done"
             /\ fimpl[t].where # "None"
             /\ r.kind = "raise"
             /\ IsException(r.exc)
             /\ Len(r.stack) >= 1)
            => /\ fout[t].kind = "returned"
               /\ fout[t].value.error =
                      FormatError(r.exc, MessageOf(r.exc), r.stack[1].line,
                                  ModuleFile)
               /\ (r.exc = "ZeroDivisionError"
                   /\ r.stack = <<Frame(ModuleFile, 10)>>)
                     => /\ Contains(fout[t].value.error, <<"ZeroDivisionError">>)
                        /\ Contains(fout[t].value.error,
                                    <<" at line ", "1", "0", " of ">>)

(* C6, as claimed: fetch neither invokes nor forwards a supplier that the  *)
(* implementation does not declare.                                        *)
C6_OnlyDeclaredSuppliers ==
    \A t \in Tasks : \A n \in Suppliers :
        (facadeCalls[t][n] > 0 \/ n \in fkw[t]) => Declares(fin[t].sig, n)

(* C6, amended: fetch forwards a name to the implementation exactly when   *)
(* the implementation declares it (by name or by **kwargs); fetch itself   *)
(* never invokes get_stored_dataframe or get_workflow_owner; it invokes    *)
(* get_input_dataframe exactly once for an external module, declared or    *)
(* not, and never for an internal one, whose suppliers are invoked only by *)
(* the implementation.                                                     *)
C6_ForwardsDeclaredResolvesExternal ==
    \A t \in Tasks :
        fpc[t] \notin {"idle", "off"} =>
            /\ \A n \in FetchKwargNames :
                 n \in fkw[t] <=>
                    (fin[t].sig.varkw \/ n \in fin[t].sig.kwonlyargs)
            /\ facadeCalls[t]["get_stored_dataframe"] = 0
            /\ facadeCalls[t]["get_workflow_owner"] = 0
            /\ facadeCalls[t]["get_input_dataframe"] =
                   (IF fin[t].is_external THEN 1 ELSE 0)
            /\ \A n \in Suppliers :
                 origCalls[t][n] > facadeCalls[t][n] =>
                    n \in fkw[t] /\ fimpl[t].calls > 0

\* An external module whose implementation declares nothing has fetched:
\* its input was resolved all the same, and nothing was forwarded.
C6_Witness ==
    \E t \in Tasks :
        /\ fpc[t] = "done"
        /\ fin[t].is_external
        /\ ~fin[t].sig.varkw
        /\ fin[t].sig.kwonlyargs = {}
        /\ fimpl[t].where # "None"
        /\ facadeCalls[t]["get_input_dataframe"] = 1
        /\ fkw[t] = {}

(* C7: within one fetch of an external module the caller's                 *)
(* get_input_dataframe is invoked at most once, fetch's own call and the   *)
(* implementation's calls through the forwarded supplier counted together, *)
(* and it has been invoked and awaited before the implementation starts.   *)
C7_InputResolvedOnce ==
    \A t \in Tasks :
        (fin[t].is_external /\ fpc[t] \notin {"idle", "off"}) =>
            /\ origCalls[t]["get_input_dataframe"] <= 1
            /\ fimpl[t].where # "None" =>
                 /\ origCalls[t]["get_input_dataframe"] = 1
                 /\ fut[t].made
                 /\ fut[t].awaited >= 1

\* The implementation of an external module called the forwarded supplier
\* as often as the model lets it, and the caller's supplier ran once.
C7_Witness ==
    \E t \in Tasks :
        /\ fpc[t] = "done"
        /\ fin[t].is_external
        /\ Len(fimpl[t].got) = MaxImplCalls
        /\ origCalls[t]["get_input_dataframe"] = 1

(* C8: for an external module whose implementation declares                *)
(* get_input_dataframe, every call of the forwarded supplier, awaited,     *)
(* yields the input table fetch built the painful dict from.               *)
C8_ForwardedYieldsResolved ==
    \A t \in Tasks :
        (fin[t].is_external /\ Declares(fin[t].sig, "get_input_dataframe")) =>
            \A i \in 1..Len(fimpl[t].got) :
                /\ fimpl[t].got[i].kind = "value"
                /\ fimpl[t].got[i].value = fut[t].dataframe

(* C9: a fetch implementation that is no coroutine function runs on the    *)
(* executor and never occupies the event loop's thread, so the loop can    *)
(* run another fetch, from its call to its return, in the meantime.        *)
C9_SyncImplOffLoop ==
    \A t \in Tasks :
        (fpc[t] \in {"impl", "impl_done"} /\ ~fin[t].iscoro) =>
            /\ fimpl[t].where = "executor"
            /\ loopOwner # t

\* A fetch was called and has returned while another task's synchronous
\* implementation was, and still is, running.
C9_Witness ==
    \E t \in Tasks, u \in Tasks :
        /\ t # u
        /\ fpc[t] = "impl"
        /\ ~fin[t].iscoro
        /\ t \in overlap[u]
        /\ fpc[u] = "done"
        /\ fout[u].kind = "returned"

(* C10: when the implementation returns None, fetch returns None, not     *)
(* coerced, truncated or sanitized; whatever else fetch returns is a       *)
(* ProcessResult: the coerced value (or the wrapped exception), truncated  *)
(* and then sanitized, never the implementation's value as it was.         *)
C10_NonePassesThrough ==
    \A t \in Tasks :
        (fpc[t] = "done" /\ fimpl[t].where # "None") =>
            LET r == fimpl[t].res
                none == r.kind = "return" /\ r.value.kind = "None"
            IN  /\ none => fout[t] = Returned(NoneVal)
                /\ (fout[t].kind = "returned" /\ ~none) =>
                     /\ fout[t].value.kind = "ProcessResult"
                     /\ fout[t].value.post = <<"truncate", "sanitize">>
                     /\ fout[t].value.rows <= MaxRowsPerTable
                     /\ r.kind = "return" =>
                          /\ r.value.kind \in {"table", "pair", "str", "ProcessResult"}
                          /\ fout[t].value.error = r.value.error
                          /\ fout[t].value.rows = Min(r.value.rows, MaxRowsPerTable)
                /\ (r.kind = "return" /\ ~none) => fout[t] # Returned(r.value)

\* The default fetch ran for an external module and fetch returned None.
C10_Witness ==
    \E t \in Tasks :
        /\ fpc[t] = "done"
        /\ fin[t] = DefaultFetch(TRUE, fin[t].input, fin[t].awaitable)
        /\ fimpl[t].where = "loop"
        /\ fout[t] = Returned(NoneVal)

\* A call of load_external_module by th returns a value in this step.
Returns(th) ==
    /\ rpc'[th] = "idle"
    /\ rret'[th].kind = "value"
    /\ <<rpc[th], rargs[th], rret[th]>> # <<rpc'[th], rargs'[th], rret'[th]>>

(* C3: with one caller at a time, a lookup whose (version_hash,           *)
(* last_update_time) equals the pair of the last returned lookup of that   *)
(* module_id_name returns the same module object, loads nothing and leaves *)
(* the cache alone; a lookup whose pair differs (or the first one) loads   *)
(* exactly once and, the load succeeding as the function's docstring       *)
(* assumes, returns the new object and makes (pair, object) the cache      *)
(* entry - so the next lookup with that pair is of the first kind.         *)
C3_RegistryCache ==
    [][\A th \in Threads :
          Returns(th) =>
            LET a == rargs'[th]
                p == CacheCondition(a)
                r == rret'[th]
            IN  IF seen[a.id].cond = p
                THEN /\ r.obj = seen[a.id].value
                     /\ r.loads = 0
                     /\ loadCount' = loadCount
                     /\ cache' = cache
                ELSE /\ r.loads = 1
                     /\ r.obj # seen[a.id].value
                     /\ r.obj.hash = a.hash
                     /\ cache'[a.id] = [cond |-> p, value |-> r.obj]]_vars

\* A lookup was answered from an entry that had replaced an earlier one.
C3_Witness ==
    /\ rpc["t1"] = "idle"
    /\ rret["t1"].kind = "value"
    /\ rret["t1"].loads = 0
    /\ rret["t1"].obj.oid >= 2
    /\ rret["t1"].obj = cache[rargs["t1"].id].value
    /\ cache[rargs["t1"].id].cond = CacheCondition(rargs["t1"])

(* C4: under any interleaving of concurrent callers, every cache entry     *)
(* pairs its condition with a module object loaded from that condition's   *)
(* version_hash and module_id_name, and every call that returns, returns   *)
(* an object loaded from the version_hash it asked for.                    *)
C4_NoCorruption ==
    /\ \A id \in ModuleIds :
          cache[id] # NoEntry =>
            /\ cache[id].cond.hash \in VersionHashes
            /\ cache[id].value.hash = cache[id].cond.hash
            /\ cache[id].value.id = id
    /\ \A th \in Threads :
          rret[th].kind = "value" =>
            /\ rret[th].obj.hash = rargs[th].hash
            /\ rret[th].obj.id = rargs[th].id

\* Duplicate work: a thread holds a module it loaded and is about to
\* overwrite the entry another thread stored, later, for another version.
C4_Witness ==
    \E th \in Threads, u \in Threads :
        /\ th # u
        /\ rpc[th] = "loaded"
        /\ rret[u].kind = "value"
        /\ rargs[u].id = rargs[th].id
        /\ rargs[u].hash # rargs[th].hash
        /\ cache[rargs[u].id].value = rret[u].obj
        /\ rlocal[th].value.oid < rret[u].obj.oid

C12_CallingConvention ==
    /\ renderOut.done =>
          IF renderIn.is_external
          THEN /\ renderOut.call.arg1 = renderIn.table
               /\ renderOut.call.arg2 = ToPainfulDict(renderIn.table)
          ELSE /\ renderOut.call.arg1 = Params
               /\ renderOut.call.arg2 = renderIn.table
    /\ \A t \in Tasks :
          fpc[t] \in {"impl", "impl_done"} \/ (fpc[t] = "done" /\ fimpl[t].where # "None") =>
              IF fin[t].is_external
              THEN /\ fin[t].input.kind = "value"
                   /\ fimpl[t].params =
                        ToPainfulDict(IF fin[t].input.value = NoneVal
                                      THEN Table(0) ELSE fin[t].input.value)
              ELSE fimpl[t].params = Params

C12_Witness ==
    /\ renderOut.done
    /\ renderIn.is_external
    /\ renderOut.call.bound
    /\ renderOut.call.arg2 = ToPainfulDict(Table(1))
    /\ \E t \in Tasks :
        /\ fpc[t] = "done"
        /\ fin[t].is_external
        /\ fimpl[t].params = ToPainfulDict(Table(0))
        /\ fout[t].kind = "returned"

(* C13: post-processing is unconditional. Every ProcessResult render      *)
(* returns, and every result other than None fetch returns, has had        *)
(* truncate_in_place_if_too_big and then sanitize_in_place applied, in     *)
(* that order, also when it was made from a caught exception; so no        *)
(* returned result has more rows than the maximum.                         *)
C13_PostProcessed ==
    LET Processed(out) ==
            /\ out.kind = "ProcessResult"
            /\ out.post = <<"truncate", "sanitize">>
            /\ out.clean
            /\ out.rows <= MaxRowsPerTable
    IN  /\ (renderOut.done /\ renderOut.outcome.kind = "returned")
              => Processed(renderOut.outcome.value)
        /\ \A t \in Tasks :
              (fpc[t] = "done" /\ fout[t].kind = "returned"
                 /\ fout[t].value # NoneVal)
                  => Processed(fout[t].value)

\* render made a result from a caught exception, fetch cut an oversized one
C13_Witness ==
    /\ renderOut.done
    /\ renderIn.does.kind = "raise"
    /\ renderOut.outcome.kind = "returned"
    /\ renderOut.outcome.value.error # EmptyStr
    /\ renderOut.outcome.value.post = <<"truncate", "sanitize">>
    /\ \E t \in Tasks :
        /\ fpc[t] = "done"
        /\ fin[t].does = ImplReturns(Table(MaxRowsPerTable + 1))
        /\ fout[t].kind = "returned"
        /\ fout[t].value.rows = MaxRowsPerTable

(* C14: migrate_params with a migrate_params_impl: an exception the       *)
(* implementation raises reaches the caller as a ValueError whose text is  *)
(* the original message; a migrated result that does not validate reaches  *)
(* the caller as a ValueError that carries the validation detail; else the *)
(* migrated values are returned, and they validate. With no                *)
(* migrate_params_impl the result is schema.coerce(values).                *)
C14_MigrateParamsContract ==
    migOut.done =>
        LET impl == migIn.impl
            r == CallMigrateImpl(impl, migIn.values)
            out == migOut.outcome
        IN  IF impl.kind = "None"
            THEN out = MigReturned(SchemaCoerce(migIn.values))
            ELSE /\ (r.kind = "raise" /\ IsException(r.exc)) =>
                      /\ out.kind = "raised"
                      /\ out.exc = "ValueError"
                      /\ out.args = <<r.msg>>
                 /\ (r.kind = "return" /\ ValidationDetail(r.value) # "") =>
                      /\ out.kind = "raised"
                      /\ out.exc = "ValueError"
                      /\ \E i \in 1..Len(out.args) :
                            out.args[i] = ValidationDetail(r.value)
                 /\ (r.kind = "return" /\ ValidationDetail(r.value) = "") =>
                      /\ out = MigReturned(r.value)
                      /\ out.value.keys = SchemaKeys

\* sort.migrate_params returned its input, which has a key too many
C14_Witness ==
    /\ migOut.done
    /\ migIn.impl.kind = "sort"
    /\ migIn.values.keys = SchemaKeys \cup {"column"}
    /\ migOut.outcome.kind = "raised"
    /\ migOut.outcome.exc = "ValueError"
    /\ Len(migOut.outcome.args) = 2

(* C15: migrate_params is idempotent on values that validate: with the     *)
(* sort module's migrate_params, or with none, values that validate are    *)
(* returned as they are, so migrating what a successful migration returned *)
(* returns it again.                                                       *)
C15_MigrateIdempotent ==
    (migOut.done /\ migIn.impl.kind \in {"sort", "None"}) =>
        /\ ValidationDetail(migIn.values) = "" =>
              migOut.outcome = MigReturned(migIn.values)
        /\ migIn.again => migOut.outcome = MigReturned(migIn.values)

\* a v0 shape was migrated, and what came out was migrated once more
C15_Witness ==
    /\ migOut.done
    /\ migIn.impl.kind = "sort"
    /\ migIn.again
    /\ migIn.values.keep_top = "2"
    /\ Len(migIn.values.sort_columns) = MaxSortColumns
    /\ migOut.outcome = MigReturned(migIn.values)

C18_BuiltinResolves ==
    [][\A th \in Threads :
          (/\ rargs'[th].id \in StaticModuleIds
           /\ (rargs'[th] # rargs[th] \/ lm'[th] # lm[th]))
            => /\ lm'[th] = [module_id_name |-> rargs'[th].id,
                             version_sha1 |-> "internal",
                             is_external |-> FALSE,
                             module |-> StaticModules[rargs'[th].id]]
               /\ cache' = cache
               /\ loadCount' = loadCount
               /\ disk' = disk]_vars

\* a built-in resolved after an external module was loaded and cached
C18_Witness ==
    \E th \in Threads :
        /\ rargs[th].id \in StaticModuleIds
        /\ rargs[th].hash = "develop"
        /\ lm[th].version_sha1 = "internal"
        /\ ~lm[th].is_external
        /\ loadCount >= 1
        /\ \E id \in ModuleIds : cache[id] # NoEntry

(* C19: a cached render result whose delta_id differs from the module's   *)
(* last_relevant_delta_id is treated as absent, whether or not its file is *)
(* on disk: the serialized module reports cached_render_result_delta_id,   *)
(* output_columns and output_n_rows all as None, exactly as when there is  *)
(* no cached result, and the backing file is not read.                     *)
C19_StaleIsAbsent ==
    (/\ spc = "done"
     /\ \/ ~slocal.cached.some
        \/ slocal.cached.v[1] # slocal.last)
        => /\ sdata = NoData
           /\ sreads = 0

\* a stale cached result whose file is on disk was serialized
C19_Witness ==
    /\ spc = "done"
    /\ slocal.cached.some
    /\ slocal.cached.v[1] # slocal.last
    /\ blob.present
    /\ blob.delta_id = slocal.cached.v[1]
    /\ sdata = NoData

(* C20: when the backing file vanishes at any point while an unlocked      *)
(* reader reads a cached result that passed the freshness check, the read  *)
(* raises nothing and reports the cached result as absent: all of          *)
(* cached_render_result_delta_id, output_columns and output_n_rows None.   *)
C20_VanishedIsAbsent ==
    (/\ spc = "done"
     /\ slocal.cached.some
     /\ slocal.cached.v[1] = slocal.last
     /\ slocal.missing)
        => sdata = NoData

\* C21: row paging never trusts client bounds. For every startrow and
\* endrow a client sends (absent, negative, reversed, beyond the table),
\* the paginated response reports 0 <= start_row <= end_row <= total_rows,
\* and end_row - start_row is at most the maximum page size, 300 rows.
C21_PagingClamped ==
    (pageOut.done /\ pageOut.status = 200) =>
        /\ 0 <= pageOut.body.start_row
        /\ pageOut.body.start_row <= pageOut.body.end_row
        /\ pageOut.body.end_row <= pageOut.body.total_rows
        /\ pageOut.body.end_row - pageOut.body.start_row <= 300

\* the rows of a table whose index is in [start_row, end_row)
RowsWithin(table, start_row, end_row) ==
    SelectSeq(table, LAMBDA i : start_row <= i /\ i < end_row)

\* C30: the paginated response is self-consistent for every startrow and
\* endrow: total_rows is the length of the full table, the rows are exactly
\* the table's rows with indices in [start_row, end_row) as the same
\* response reports them, and so there are end_row - start_row of them.
C30_PageSelfConsistent ==
    (pageOut.done /\ pageOut.status = 200) =>
        /\ pageOut.body.total_rows = Len(pageIn.table)
        /\ pageOut.body.rows =
               RowsWithin(pageIn.table, pageOut.body.start_row,
                          pageOut.body.end_row)
        /\ Len(pageOut.body.rows) =
               pageOut.body.end_row - pageOut.body.start_row

\* the indices i of a table of n rows or columns with lo <= i < hi
IndicesWithin(n, lo, hi) == {i \in 0..(n - 1) : lo <= i /\ i < hi}

\* what a sequence holds, and that it holds it in increasing order
Ascending(seq) == \A i, j \in DOMAIN seq : i < j => seq[i] < seq[j]

\* C22: tiled read. For a cached table of N rows and C columns and tile
\* size (R, Cw), tile (r, c) is exactly rows [r*R, min(N, (r+1)*R)) and
\* columns [c*Cw, min(C, (c+1)*Cw)), in order; only the data of the columns
\* selected from the metadata is read; a tile outside the table is empty,
\* not an error; and of 1000 rows and 120 columns, tile (2, 3) at 200x50 is
\* rows 400-599 and no column.
C22_TileExact ==
    tpc = "done" =>
        LET n == tileIn.file.nrows
            c == Len(tileIn.file.columns)
            rows == IndicesWithin(n, tileIn.tile_row * tileIn.size.height,
                        Min(n, (tileIn.tile_row + 1) * tileIn.size.height))
            cols == IndicesWithin(c, tileIn.tile_column * tileIn.size.width,
                        Min(c, (tileIn.tile_column + 1) * tileIn.size.width))
        IN  /\ ~tileOut.error
            /\ {tileOut.rows[i] : i \in DOMAIN tileOut.rows} = rows
            /\ Ascending(tileOut.rows)
            /\ Len(tileOut.columns) = Cardinality(cols)
            /\ \A i \in DOMAIN tileOut.columns :
                   tileOut.columns[i] =
                       ColumnName(tileIn.tile_column * tileIn.size.width + i - 1)
            /\ dataRead = {ColumnName(i) : i \in cols}
            /\ tileIn = Scenario4 =>
                   /\ tileOut.columns = <<>>
                   /\ tileOut.rows = [i \in 1..200 |-> 399 + i]

\* a tile that ends at the table's last row and last column has been read
C22_Witness ==
    /\ tpc = "done"
    /\ tileOut.rows # <<>> /\ tileOut.columns # <<>>
    /\ Len(tileOut.rows) < tileIn.size.height
    /\ Len(tileOut.columns) < tileIn.size.width
    /\ tileIn.tile_row > 0 /\ tileIn.tile_column > 0

\* C23: write-oriented requests on a workflow (PATCH of notes, update
\* settings, collapsed, notifications; DELETE; PATCH of the data version;
\* marking data versions read) make every mutation while they hold the
\* workflow's cooperative lock, so that the read-modify-write sequences of
\* two concurrent write requests never interleave: no request writes back
\* what it read before another request's commit.
C23_WritesSerialized ==
    /\ \A r \in Requests :
           (vpc[r] = "body" /\ vreq[r].method = "PATCH") => lock = r
    /\ \A r \in Requests : ~clobbered[r]

C25_AcceptedOrUntouched ==
    /\ cpc = "created" =>
           LET migrated == MigrateParams(cin.impl, cin.stored)
           IN  /\ cin.state = "ok"
               /\ migrated.kind = "returned"
               /\ ValidationDetail(Overlay(migrated.value, cin.submitted)) = ""
               /\ cmd.made
               /\ cmd.old_values = cin.stored
    /\ cpc \in {"rejected", "raised"} =>
           /\ ~cmd.made
           /\ wfParams = cin.stored
           /\ dbParams = cin.stored

\* C27: undo/redo round trip. forward_impl sets wf_module.params to
\* old_values overlaid with new_values and backward_impl to exactly
\* old_values: after any alternation of the two, params is
\* {**old_values, **new_values} after a forward and old_values after a
\* backward, with no key of the forward state left behind.
C27_UndoRedoRoundTrip ==
    /\ cpc = "applied" =>
           /\ dbParams.keys = cmd.old_values.keys \cup cmd.new_values.keys
           /\ \A k \in cmd.new_values.keys : dbParams[k] = cmd.new_values[k]
           /\ \A k \in cmd.old_values.keys \ cmd.new_values.keys :
                  dbParams[k] = cmd.old_values[k]
           /\ wfParams = dbParams
    /\ cpc = "undone" =>
           /\ dbParams = cmd.old_values
           /\ dbParams.keys \cap (cmd.new_values.keys \ cmd.old_values.keys) = {}
           /\ wfParams = dbParams

\* a change that added a key and changed a value has been undone
C27_Witness ==
    /\ cpc = "undone"
    /\ cmd.new_values.keys \ cmd.old_values.keys # {}
    /\ ForwardParams(cmd) # cmd.old_values
    /\ cin.submitted.keys # {}

\* C26: render accepts an absent input table. LoadedModule.render called
\* with table = None, for a module with no upstream input, returns a
\* ProcessResult and does not raise, for internal and external modules and
\* whatever the implementation returns.
C26_RenderWithoutInput ==
    (renderOut.done /\ renderIn.table.kind = "None" /\ renderOut.call.bound
     /\ renderIn.does.kind = "return") =>
        /\ renderOut.outcome.kind = "returned"
        /\ renderOut.outcome.value.kind = "ProcessResult"

\* C28: a failed external-module load leaves the registry cache unchanged.
\* When the load from disk raises, the cache is what it was, and the entry
\* of that module_id_name is the one the call found; a lookup that hits
\* returns the cached object without a load; and the cache never holds the
\* pair of a failing load, so a later lookup with it loads again.
C28_FailedLoadKeepsCache ==
    /\ [](\A id \in ModuleIds :
             cache[id] # NoEntry =>
                 /\ PythonFiles(disk[<<id, cache[id].cond.hash>>]) # {}
                 /\ cache[id].value # NoObj)
    /\ [][\A th \in Threads :
             /\ (rpc[th] = "miss" /\ rret'[th].kind = "raised") =>
                    /\ cache' = cache
                    /\ cache'[rargs[th].id] =
                           [cond |-> rlocal[th].ccond, value |-> rlocal[th].cval]
                    /\ ~CacheHit(cache'[rargs[th].id].cond,
                                 CacheCondition(rargs[th]))
             /\ (rpc[th] = "idle" /\ rargs'[th] # NoArgs
                 /\ CacheHit(cache[rargs'[th].id].cond,
                             CacheCondition(rargs'[th]))) =>
                    /\ rret'[th].kind = "value"
                    /\ rret'[th].obj = cache[rargs'[th].id].value
                    /\ loadCount' = loadCount
                    /\ cache' = cache]_vars

\* a load failed for a module that has a version in the cache
C28_Witness ==
    \E th \in Threads :
        /\ rpc[th] = "idle"
        /\ rret[th].kind = "raised"
        /\ cache[rargs[th].id] # NoEntry

\* C29: when a module has a cached render result whose delta_id equals its
\* last_relevant_delta_id and whose backing file is readable, the
\* serialized module reports cached_render_result_delta_id equal to that
\* delta_id, together with output_columns and output_n_rows.
C29_FreshIsReported ==
    (/\ spc = "done"
     /\ slocal.cached.some
     /\ slocal.cached.v[1] = slocal.last
     /\ ~slocal.missing)
        => /\ sdata.cached_render_result_delta_id = Some(slocal.cached.v[1])
           /\ sdata.output_columns.some
           /\ sdata.output_n_rows.some

=============================================================================
